---------------------------- MODULE Spec2Model ----------------------------
(***************************************************************************)
(* A/B-test tracker: request authentication (origin allow-list, HMAC      *)
(* signature with replay window), the assignment orchestrator (URL and     *)
(* condition matching, weighted creative selection) and the browser SDK's  *)
(* sticky session cache.                                                    *)
(*                                                                         *)
(* Strings whose bytes matter (URLs, patterns, origins, hex signatures)    *)
(* are sequences of one-character strings, so that substring, prefix,      *)
(* suffix, trimming and case folding are computed as the code computes     *)
(* them.                                                                   *)
(***************************************************************************)
EXTENDS Integers, Sequences, FiniteSets, TLC

VARIABLES
    now,            \* the clock, in ms (Date.now() in the browser and on the server)
    stored,         \* the ABTest collection, in stored order
    localStorage,   \* the browser's session cache: abtestId -> entry
    view,           \* per tab: the page view in progress and what it did
    windowLogs,     \* per abtestId: impressions sent inside the current session window
    abtestLogs,     \* the ABTestLog collection: documents saved per abtestId
    input,          \* arguments of the pure function under check
    output          \* its result, or Pending before the call

pureVars == <<input, output>>

mainVars == <<now, stored, localStorage, view, windowLogs, abtestLogs>>

vars == <<now, stored, localStorage, view, windowLogs, abtestLogs, input, output>>

Pending == [pending |-> TRUE]

Idle == [idle |-> TRUE]

\* the system stands still while a pure function is exercised on its own
MainAtRest ==
    /\ now = 0
    /\ stored = <<>>
    /\ localStorage = <<>>
    /\ view = <<>>
    /\ windowLogs = <<>>
    /\ abtestLogs = <<>>

(***************************************************************************)
(* String helpers (JavaScript String.prototype semantics)                  *)
(***************************************************************************)
Min(a, b) == IF a < b THEN a ELSE b

Max(a, b) == IF a > b THEN a ELSE b

\* All sequences over alphabet A of length <= n
SeqsUpTo(A, n) == UNION { [1..k -> A] : k \in 0..n }

\* s.slice(from, to) with 0-based indices, from inclusive, to exclusive
Slice(s, from, to) ==
    IF to <= from THEN <<>> ELSE SubSeq(s, from + 1, Min(to, Len(s)))

\* s.startsWith(p)
StartsWith(s, p) == Len(p) <= Len(s) /\ SubSeq(s, 1, Len(p)) = p

\* s.endsWith(p)
EndsWith(s, p) ==
    Len(p) <= Len(s) /\ SubSeq(s, Len(s) - Len(p) + 1, Len(s)) = p

\* s.includes(p)
Includes(s, p) ==
    \E i \in 0..(Len(s) - Len(p)) : SubSeq(s, i + 1, i + Len(p)) = p

\* s.lastIndexOf(c) for a single character c, -1 when absent
LastIndexOf(s, c) ==
    IF \E i \in 1..Len(s) : s[i] = c
    THEN (CHOOSE i \in 1..Len(s) : s[i] = c /\ \A j \in (i+1)..Len(s) : s[j] # c) - 1
    ELSE -1

IsSpace(c) == c = " "

\* s.trim()
Trim(s) ==
    IF \A i \in 1..Len(s) : IsSpace(s[i]) THEN <<>>
    ELSE LET first == CHOOSE i \in 1..Len(s) :
                          ~IsSpace(s[i]) /\ \A j \in 1..(i-1) : IsSpace(s[j])
             last  == CHOOSE i \in 1..Len(s) :
                          ~IsSpace(s[i]) /\ \A j \in (i+1)..Len(s) : IsSpace(s[j])
         IN  SubSeq(s, first, last)

\* `!s || s.trim() === ''`
IsBlank(s) == Trim(s) = <<>>

UpperLetters ==
    <<"A", "B", "C", "D", "E", "F", "G", "H", "I", "J", "K", "L", "M",
      "N", "O", "P", "Q", "R", "S", "T", "U", "V", "W", "X", "Y", "Z">>

LowerLetters ==
    <<"a", "b", "c", "d", "e", "f", "g", "h", "i", "j", "k", "l", "m",
      "n", "o", "p", "q", "r", "s", "t", "u", "v", "w", "x", "y", "z">>

LowerChar(c) ==
    IF \E i \in 1..26 : UpperLetters[i] = c
    THEN LowerLetters[CHOOSE i \in 1..26 : UpperLetters[i] = c]
    ELSE c

\* s.toLowerCase()
ToLower(s) == [i \in 1..Len(s) |-> LowerChar(s[i])]

(***************************************************************************)
(* RegExp, restricted to the patterns the model draws: a body made of      *)
(* literal characters, or a body holding an unbalanced "(" (a syntax       *)
(* error).  Flags follow ECMAScript: each of d g i m s u y at most once.   *)
(***************************************************************************)
RegexFlagChars == {"d", "g", "i", "m", "s", "u", "y"}

RegexFlagsValid(flags) ==
    /\ \A i \in 1..Len(flags) : flags[i] \in RegexFlagChars
    /\ \A i, j \in 1..Len(flags) : i # j => flags[i] # flags[j]

RegexBodyValid(body) == \A i \in 1..Len(body) : body[i] # "("

\* `new RegExp(body, flags)` throws SyntaxError
RegexThrows(body, flags) == ~RegexBodyValid(body) \/ ~RegexFlagsValid(flags)

HasFlag(flags, f) == \E i \in 1..Len(flags) : flags[i] = f

\* `new RegExp(body, flags).test(s)` for a fresh, valid regex
RegexTest(body, flags, s) ==
    LET b == IF HasFlag(flags, "i") THEN ToLower(body) ELSE body
        t == IF HasFlag(flags, "i") THEN ToLower(s) ELSE s
    IN  IF HasFlag(flags, "y") THEN StartsWith(t, b) ELSE Includes(t, b)

(***************************************************************************)
(* matchUrl(url, pattern)                                                  *)
(***************************************************************************)
\* the guard of the regex branch: pattern.startsWith('/') && pattern.includes('/')
IsRegexPattern(pattern) == StartsWith(pattern, <<"/">>) /\ Includes(pattern, <<"/">>)

matchUrl(url, pattern) ==
    IF IsBlank(pattern) THEN TRUE
    ELSE IF IsRegexPattern(pattern)
         THEN LET lastSlash    == LastIndexOf(pattern, "/")
                  regexPattern == Slice(pattern, 1, lastSlash)
                  flags        == Slice(pattern, lastSlash + 1, Len(pattern))
              IN  IF RegexThrows(regexPattern, flags) THEN FALSE
                  ELSE RegexTest(regexPattern, flags, url)
         ELSE Includes(url, pattern)

(***************************************************************************)
(* SpecUrl: matchUrl applied to bounded urls and patterns                  *)
(***************************************************************************)
MaxUrlLen == 3

MaxPatLen == 3

UrlChars == {"/", "a", "A"}

PatChars == {"/", "a", "i", "(", " "}

\* "/products/1" and "/products"
UrlProducts == <<"/", "p", "r", "o", "d", "u", "c", "t", "s", "/", "1">>

PatProducts == <<"/", "p", "r", "o", "d", "u", "c", "t", "s">>

Urls == SeqsUpTo(UrlChars, MaxUrlLen) \cup {UrlProducts}

Patterns == SeqsUpTo(PatChars, MaxPatLen) \cup {PatProducts}

InitUrl ==
    /\ MainAtRest
    /\ input \in [url : Urls, pattern : Patterns]
    /\ output = Pending

CallMatchUrl ==
    /\ output = Pending
    /\ output' = [result |-> matchUrl(input.url, input.pattern)]
    /\ UNCHANGED mainVars
    /\ UNCHANGED input

NextUrl == CallMatchUrl

SpecUrl == InitUrl /\ [][NextUrl]_vars

\* the pattern has the form /<body>/<flags>: a leading slash and a second one
HasSecondSlash(pattern) ==
    StartsWith(pattern, <<"/">>) /\ LastIndexOf(pattern, "/") > 0

\* C9: a pattern is a regular expression only when it starts with "/" and
\* holds a second "/"; every other non-blank pattern (such as "/products")
\* is a literal substring test; a blank pattern always matches.
C9_MatchUrlLiteralUnlessTwoSlashes ==
    output # Pending =>
        output.result =
            IF IsBlank(input.pattern) THEN TRUE
            ELSE IF HasSecondSlash(input.pattern)
                 THEN LET lastSlash == LastIndexOf(input.pattern, "/")
                          body      == Slice(input.pattern, 1, lastSlash)
                          flags     == Slice(input.pattern, lastSlash + 1,
                                             Len(input.pattern))
                      IN  ~RegexThrows(body, flags)
                          /\ RegexTest(body, flags, input.url)
                 ELSE Includes(input.url, input.pattern)

(***************************************************************************)
(* Condition matcher                                                       *)
(***************************************************************************)
IsDigit(c) == c \in {"0", "1", "2", "3", "4", "5", "6", "7", "8", "9"}

DigitVal(c) ==
    CASE c = "0" -> 0 [] c = "1" -> 1 [] c = "2" -> 2 [] c = "3" -> 3
      [] c = "4" -> 4 [] c = "5" -> 5 [] c = "6" -> 6 [] c = "7" -> 7
      [] c = "8" -> 8 [] c = "9" -> 9

RECURSIVE DigitsValue(_, _)
\* value of the leading run of digits of s, continuing from acc
DigitsValue(s, acc) ==
    IF s = <<>> \/ ~IsDigit(Head(s)) THEN acc
    ELSE DigitsValue(Tail(s), acc * 10 + DigitVal(Head(s)))

RECURSIVE SkipSpaces(_)
SkipSpaces(s) == IF s # <<>> /\ IsSpace(Head(s)) THEN SkipSpaces(Tail(s)) ELSE s

\* parseInt(s) of a string: leading blanks skipped, an optional sign, then
\* the leading digits; NaN (nan = TRUE) when no digit follows
ParseInt(s) ==
    LET t    == SkipSpaces(s)
        neg  == t # <<>> /\ Head(t) = "-"
        body == IF t # <<>> /\ Head(t) \in {"-", "+"} THEN Tail(t) ELSE t
    IN  IF body = <<>> \/ ~IsDigit(Head(body)) THEN [nan |-> TRUE, n |-> 0]
        ELSE [nan |-> FALSE,
              n   |-> IF neg THEN 0 - DigitsValue(body, 0) ELSE DigitsValue(body, 0)]

\* `parseInt(s) || 0`
ParseIntOrZero(s) == IF ParseInt(s).nan THEN 0 ELSE ParseInt(s).n

\* (condition.values || []).includes(value)
InValues(values, value) == \E i \in 1..Len(values) : values[i] = value

\* mutant: the catch block of 'notRegex' returns false like that of 'regex'
checkSingleConditionCatchFalse(condition, value) ==
    LET condValue == condition.value
        condType  == IF condition.condition = "" THEN "exact" ELSE condition.condition
    IN  CASE condType = "exact"         -> value = condValue
          [] condType = "contains"      -> Includes(value, condValue)
          [] condType = "startsWith"    -> StartsWith(value, condValue)
          [] condType = "endsWith"      -> EndsWith(value, condValue)
          [] condType = "regex"         ->
                IF RegexThrows(condValue, <<>>) THEN FALSE
                ELSE RegexTest(condValue, <<>>, value)
          [] condType = "oneOf"         -> InValues(condition.values, value)
          [] condType = "notRegex"      ->
                IF RegexThrows(condValue, <<>>) THEN FALSE
                ELSE ~RegexTest(condValue, <<>>, value)
          [] condType = "notStartsWith" -> ~StartsWith(value, condValue)
          [] condType = "notEndsWith"   -> ~EndsWith(value, condValue)
          [] condType = "notContains"   -> ~Includes(value, condValue)
          [] condType = "notOneOf"      -> ~InValues(condition.values, value)
          [] OTHER                      -> FALSE

checkSingleCondition(condition, value) ==
    LET condValue == condition.value
        condType  == IF condition.condition = "" THEN "exact" ELSE condition.condition
    IN  CASE condType = "exact"         -> value = condValue
          [] condType = "contains"      -> Includes(value, condValue)
          [] condType = "startsWith"    -> StartsWith(value, condValue)
          [] condType = "endsWith"      -> EndsWith(value, condValue)
          [] condType = "regex"         ->
                IF RegexThrows(condValue, <<>>) THEN FALSE
                ELSE RegexTest(condValue, <<>>, value)
          [] condType = "oneOf"         -> InValues(condition.values, value)
          [] condType = "notRegex"      ->
                IF RegexThrows(condValue, <<>>) THEN TRUE
                ELSE ~RegexTest(condValue, <<>>, value)
          [] condType = "notStartsWith" -> ~StartsWith(value, condValue)
          [] condType = "notEndsWith"   -> ~EndsWith(value, condValue)
          [] condType = "notContains"   -> ~Includes(value, condValue)
          [] condType = "notOneOf"      -> ~InValues(condition.values, value)
          [] OTHER                      -> FALSE

RECURSIVE checkConditionArrayAll(_, _)
\* mutant: every entry of the axis must match
checkConditionArrayAll(conditions, value) ==
    IF conditions = <<>> THEN TRUE
    ELSE checkSingleCondition(Head(conditions), value)
         /\ checkConditionArrayAll(Tail(conditions), value)

RECURSIVE checkConditionArray(_, _)
checkConditionArray(conditions, value) ==
    IF conditions = <<>> THEN FALSE
    ELSE IF checkSingleCondition(Head(conditions), value) THEN TRUE
         ELSE checkConditionArray(Tail(conditions), value)

conditionTypes == <<"device", "browser", "os", "language">>

\* mutant: an entry with a blank value is kept when it carries a values[] list
validConditionsOrValues(entries) ==
    SelectSeq(entries, LAMBDA c : ~IsBlank(c.value) \/ c.values # <<>>)

\* conditions[type].filter(c => c.value && c.value.trim() !== '')
validConditions(entries) == SelectSeq(entries, LAMBDA c : ~IsBlank(c.value))

RECURSIVE checkAxes(_, _, _)
\* the loop over conditionTypes: FALSE at the first axis that fails
checkAxes(types, conditions, context) ==
    IF types = <<>> THEN TRUE
    ELSE LET type  == Head(types)
             valid == validConditions(conditions[type])
         IN  IF Len(conditions[type]) > 0 /\ Len(valid) > 0
                /\ ~checkConditionArray(valid, context[type])
             THEN FALSE
             ELSE checkAxes(Tail(types), conditions, context)

\* one entry of conditions.other
otherEntryPasses(cond, context) ==
    LET requiredVisitCount == ParseIntOrZero(cond.visitCount)
    IN  IF context.visitCount < requiredVisitCount THEN FALSE
        ELSE IF ~IsBlank(cond.referrer) /\ ~matchUrl(context.referrer, cond.referrer)
             THEN FALSE
             ELSE TRUE

\* mutant: only the first entry of conditions.other is looked at
checkOtherFirst(others, context) ==
    others = <<>> \/ otherEntryPasses(Head(others), context)

RECURSIVE checkOther(_, _)
\* the loop over conditions.other: FALSE at the first entry that fails
checkOther(others, context) ==
    IF others = <<>> THEN TRUE
    ELSE IF ~otherEntryPasses(Head(others), context) THEN FALSE
         ELSE checkOther(Tail(others), context)

NoConditions == [none |-> TRUE]

checkConditions(conditions, context) ==
    IF conditions = NoConditions THEN TRUE
    ELSE IF ~checkAxes(conditionTypes, conditions, context) THEN FALSE
         ELSE checkOther(conditions.other, context)

(***************************************************************************)
(* SpecCond: checkConditions applied to bounded condition sets and         *)
(* visitor contexts                                                        *)
(***************************************************************************)
MaxEntries == 2

S_PC == <<"P", "C">>

S_SP == <<"S", "P">>

S_en == <<"e", "n">>

S_ja == <<"j", "a">>

S_Chrome == <<"C", "h">>

S_Safari == <<"S", "a">>

S_Win == <<"W", "i", "n">>

Entry(v, c, vs) == [value |-> v, condition |-> c, values |-> vs]

DevicePool ==
    { Entry(S_PC, "exact", <<>>), Entry(S_SP, "exact", <<>>),
      Entry(<<" ">>, "exact", <<>>) }

LanguagePool == { Entry(S_en, "exact", <<>>), Entry(<<"j">>, "startsWith", <<>>) }

BrowserChoices ==
    { <<>>, <<Entry(S_Chrome, "exact", <<>>)>>,
      <<Entry(<<>>, "oneOf", <<S_Safari>>)>>,
      <<Entry(<<>>, "notOneOf", <<S_Chrome>>)>>,
      <<Entry(<<>>, "oneOf", <<S_Safari>>), Entry(S_Chrome, "exact", <<>>)>>,
      <<Entry(<<"(">>, "regex", <<>>)>>,
      <<Entry(<<"(">>, "notRegex", <<>>)>> }

OsChoices == { <<>>, <<Entry(S_Win, "notContains", <<>>)>> }

OtherEntry(vc, ref) == [visitCount |-> vc, referrer |-> ref]

OtherChoices ==
    { <<>>, <<OtherEntry(<<"2">>, <<>>)>>, <<OtherEntry(<<"x">>, <<>>)>>,
      <<OtherEntry(<<"0">>, <<"a">>), OtherEntry(<<"3">>, <<" ">>)>> }

ConditionSets ==
    [ device   : SeqsUpTo(DevicePool, MaxEntries),
      language : SeqsUpTo(LanguagePool, MaxEntries),
      browser  : BrowserChoices,
      os       : OsChoices,
      other    : OtherChoices ] \cup {NoConditions}

Contexts ==
    [ device     : {S_PC, S_SP},
      language   : {S_en, S_ja},
      browser    : {S_Chrome, S_Safari},
      os         : {S_Win},
      visitCount : {1, 3},
      referrer   : {<<"a", "/">>, <<>>} ]

InitCond ==
    /\ MainAtRest
    /\ input \in [conditions : ConditionSets, context : Contexts]
    /\ output = Pending

CallCheckConditions ==
    /\ output = Pending
    /\ output' = [result |-> checkConditions(input.conditions, input.context)]
    /\ UNCHANGED mainVars
    /\ UNCHANGED input

NextCond == CallCheckConditions

SpecCond == InitCond /\ [][NextCond]_vars

Axes == {"device", "browser", "os", "language"}

\* the entries of an axis whose value is non-blank
ValidEntries(entries) ==
    { i \in 1..Len(entries) : ~IsBlank(entries[i].value) }

\* C8 (general form): checkConditions is TRUE iff every axis that has an entry with a
\* non-blank value has such an entry whose single-condition check succeeds
\* on the context's value for that axis (OR inside an axis, AND across
\* axes), and every `other` entry passes.
AxesAndOr ==
    (output # Pending /\ input.conditions # NoConditions) =>
        (output.result <=>
            /\ \A axis \in Axes :
                  ValidEntries(input.conditions[axis]) # {} =>
                      \E i \in ValidEntries(input.conditions[axis]) :
                          checkSingleCondition(input.conditions[axis][i],
                                               input.context[axis])
            /\ \A k \in 1..Len(input.conditions.other) :
                  otherEntryPasses(input.conditions.other[k], input.context))

\* device = [PC exact, SP exact] AND language = [en exact]
ConditionExample ==
    /\ input.conditions # NoConditions
    /\ input.conditions.device =
           <<Entry(S_PC, "exact", <<>>), Entry(S_SP, "exact", <<>>)>>
    /\ input.conditions.language = <<Entry(S_en, "exact", <<>>)>>
    /\ input.conditions.browser = <<>>
    /\ input.conditions.os = <<>>
    /\ input.conditions.other = <<>>

\* the example matches {PC,en} and {SP,en} but not {PC,ja}
ConditionExampleOutcome ==
    (output # Pending /\ ConditionExample) =>
        (output.result <=> input.context.language = S_en)

\* C8: checkConditions is TRUE iff every axis with a non-blank entry has a
\* matching non-blank entry and all `other` entries pass; the example
\* device=[PC,SP] AND language=[en] matches {PC,en}, {SP,en}, not {PC,ja}.
C8_ConditionAndOrSemantics == AxesAndOr /\ ConditionExampleOutcome

\* C8 witness: the example rejected {PC, ja} after accepting the device axis
C8_Witness ==
    /\ output # Pending
    /\ ConditionExample
    /\ input.context.device = S_PC
    /\ input.context.language = S_ja
    /\ output.result = FALSE

\* the browser axis is the single entry whose value "(" is not a valid
\* regular expression, with the given condition type
BrowserIsInvalidPattern(type) ==
    /\ input.conditions # NoConditions
    /\ input.conditions.browser = <<Entry(<<"(">>, type, <<>>)>>
    /\ RegexThrows(<<"(">>, <<>>)

\* the conditions with the browser axis left empty
WithoutBrowser == [input.conditions EXCEPT !.browser = <<>>]

\* C25: an entry whose value is not a valid regular expression yields false
\* under 'regex' (the axis, being that entry alone, rejects the visitor) and
\* true under 'notRegex' (the axis constrains nothing: the verdict is that
\* of the other axes); checkConditions returns a boolean in both cases.
C25_InvalidRegexIsCaught ==
    output # Pending =>
        /\ output.result \in BOOLEAN
        /\ BrowserIsInvalidPattern("regex") => output.result = FALSE
        /\ BrowserIsInvalidPattern("notRegex") =>
               output.result = checkConditions(WithoutBrowser, input.context)

\* C25 witness: an invalid 'notRegex' entry let the visitor through
C25_Witness ==
    /\ output # Pending
    /\ BrowserIsInvalidPattern("notRegex")
    /\ input.conditions.device = <<Entry(S_PC, "exact", <<>>)>>
    /\ input.context.device = S_PC
    /\ output.result = TRUE

\* the entries of an axis that remain once those with a blank value are removed
NonBlankEntries(entries) ==
    [ k \in 1..Cardinality(ValidEntries(entries)) |->
        entries[CHOOSE i \in ValidEntries(entries) :
                    Cardinality({ j \in ValidEntries(entries) : j <= i }) = k] ]

\* the conditions with the blank-valued entries removed from every axis
BlankEntriesRemoved ==
    [ axis \in DOMAIN input.conditions |->
        IF axis \in Axes THEN NonBlankEntries(input.conditions[axis])
        ELSE input.conditions[axis] ]

\* the browser axis has entries and all of them have a blank value
BrowserAllBlank ==
    /\ input.conditions # NoConditions
    /\ input.conditions.browser # <<>>
    /\ ValidEntries(input.conditions.browser) = {}

\* C30: entries with a blank value are discarded before an axis is
\* evaluated, whatever their condition type and values[] list: the verdict
\* is that of the conditions without those entries, and an axis made only
\* of such entries constrains nothing.
C30_BlankEntriesDiscarded ==
    (output # Pending /\ input.conditions # NoConditions) =>
        /\ output.result = checkConditions(BlankEntriesRemoved, input.context)
        /\ BrowserAllBlank =>
               output.result = checkConditions(WithoutBrowser, input.context)

\* C30 witness: a oneOf entry listing Safari, with a blank value, did not
\* keep a Chrome visitor out
C30_Witness ==
    /\ output # Pending
    /\ BrowserAllBlank
    /\ input.conditions.browser = <<Entry(<<>>, "oneOf", <<S_Safari>>)>>
    /\ input.context.browser = S_Chrome
    /\ output.result = TRUE

\* the `other` entries are reached: the four axes let the visitor through
OtherReached ==
    /\ output # Pending
    /\ input.conditions # NoConditions
    /\ checkAxes(conditionTypes, input.conditions, input.context)

\* entry.referrer is blank or matchUrl(context.referrer, entry.referrer)
ReferrerPasses(entry) ==
    IsBlank(entry.referrer) \/ matchUrl(input.context.referrer, entry.referrer)

\* parseInt(entry.visitCount or '0'), which is NaN for a text with no
\* leading digits
StatedThreshold(entry) ==
    ParseInt(IF entry.visitCount = <<>> THEN <<"0">> ELSE entry.visitCount)

\* context.visitCount >= NaN is false
StatedEntryPasses(entry) ==
    /\ ~StatedThreshold(entry).nan
    /\ input.context.visitCount >= StatedThreshold(entry).n
    /\ ReferrerPasses(entry)

\* C26 (as stated): with the axes passed, checkConditions is TRUE iff every
\* `other` entry has context.visitCount >= parseInt(entry.visitCount or '0')
\* and a blank or matching referrer.
C26_OtherEntriesAsStated ==
    OtherReached =>
        (output.result <=>
            \A k \in 1..Len(input.conditions.other) :
                StatedEntryPasses(input.conditions.other[k]))

\* the threshold of an entry: its leading integer, 0 when there is none
EntryThreshold(entry) ==
    IF StatedThreshold(entry).nan THEN 0 ELSE StatedThreshold(entry).n

\* the largest threshold over the `other` entries (0 for no entries)
MaxThreshold ==
    LET thresholds == { EntryThreshold(input.conditions.other[k]) :
                            k \in 1..Len(input.conditions.other) } \cup {0}
    IN  CHOOSE m \in thresholds : \A n \in thresholds : n <= m

\* C26 (amended): an `other` entry passes iff context.visitCount is at least
\* the entry's threshold, a visitCount text without a leading integer
\* counting as 0, and its referrer is blank or matches; the entries are
\* AND'd, so the effective threshold is the maximum over the entries.
C26_OtherEntriesAndThreshold ==
    OtherReached =>
        (output.result <=>
            /\ input.context.visitCount >= MaxThreshold
            /\ \A k \in 1..Len(input.conditions.other) :
                  /\ input.context.visitCount >=
                         EntryThreshold(input.conditions.other[k])
                  /\ ReferrerPasses(input.conditions.other[k]))

\* C26 witness: two entries, the first passed and the second, holding the
\* larger threshold, rejected the visitor
C26_Witness ==
    /\ OtherReached
    /\ Len(input.conditions.other) = 2
    /\ otherEntryPasses(input.conditions.other[1], input.context)
    /\ input.context.visitCount < MaxThreshold
    /\ output.result = FALSE

(***************************************************************************)
(* HMAC request signing                                                    *)
(*                                                                         *)
(* HMAC-SHA256 is modelled as a collision-free keyed function: the digest  *)
(* is the number that encodes (key, timestamp, projectId, url), written    *)
(* as HexWidth hexadecimal digits.  The canonical payload                  *)
(* "<ts>.<projectId>.<url>" is kept as the three values it concatenates.   *)
(***************************************************************************)
SIGNING_WINDOW_MS == 300000

DigestBytes == 4

HexWidth == 2 * DigestBytes

TsSpan == 1024 * 1024

HexDigits ==
    <<"0", "1", "2", "3", "4", "5", "6", "7", "8", "9", "a", "b", "c", "d", "e", "f">>

UpperChar(c) ==
    IF \E i \in 1..26 : LowerLetters[i] = c
    THEN UpperLetters[CHOOSE i \in 1..26 : LowerLetters[i] = c]
    ELSE c

\* s.toUpperCase()
ToUpper(s) == [i \in 1..Len(s) |-> UpperChar(s[i])]

RECURSIVE ToHex(_, _)
\* n written as `width` lower-case hexadecimal digits (digest('hex'),
\* b.toString(16).padStart(2, '0'))
ToHex(n, width) ==
    IF width = 0 THEN <<>>
    ELSE Append(ToHex(n \div 16, width - 1), HexDigits[(n % 16) + 1])

IsHexChar(c) == \E i \in 1..16 : HexDigits[i] = LowerChar(c)

HexVal(c) == (CHOOSE i \in 1..16 : HexDigits[i] = LowerChar(c)) - 1

RECURSIVE HexDecode(_)
\* Buffer.from(s, 'hex'): one byte per pair of hexadecimal digits of either
\* case, stopping at the first pair that is not hexadecimal
HexDecode(s) ==
    IF Len(s) < 2 \/ ~IsHexChar(s[1]) \/ ~IsHexChar(s[2]) THEN <<>>
    ELSE <<HexVal(s[1]) * 16 + HexVal(s[2])>> \o HexDecode(SubSeq(s, 3, Len(s)))

CharCode(c) ==
    CASE c = "/" -> 1 [] c = "a" -> 2 [] c = "b" -> 3 [] OTHER -> 0

RECURSIVE StrCode(_)
StrCode(s) == IF s = <<>> THEN 0 ELSE CharCode(Head(s)) + 4 * StrCode(Tail(s))

IdCode(id) ==
    CASE id = "p1" -> 0 [] id = "p2" -> 1 [] id = "p3" -> 2 [] OTHER -> 3

KeyCode(key) ==
    CASE key = "k1" -> 0 [] key = "k2" -> 1 [] OTHER -> 2

\* buildSignaturePayload(timestamp, projectId, url)
buildSignaturePayload(timestamp, projectId, url) ==
    [ts |-> timestamp, projectId |-> projectId, url |-> url]

\* HMAC-SHA256(key, payload) as a number below 16^HexWidth, one per
\* (key, payload)
HmacDigest(key, payload) ==
    ((KeyCode(key) * 4 + IdCode(payload.projectId)) * 128 + StrCode(payload.url))
        * TsSpan + (payload.ts % TsSpan)

\* server: computeSignature(timestamp, projectId, url, apiKey)
computeSignature(timestamp, projectId, url, apiKey) ==
    ToHex(HmacDigest(apiKey, buildSignaturePayload(timestamp, projectId, url)),
          HexWidth)

\* SDK: hmacSHA256(key, message), hex string
hmacSHA256(key, message) == ToHex(HmacDigest(key, message), HexWidth)

(* Request body fields as JSON delivers them *)
TsNum(n) == [kind |-> "num", n |-> n]

TsNumStr(n) == [kind |-> "numstr", n |-> n]

TsText == [kind |-> "text", n |-> 0]

TsMissing == [kind |-> "missing", n |-> 0]

SigStr(chars) == [kind |-> "str", s |-> chars]

SigNonString == [kind |-> "other", s |-> <<>>]

SigMissing == [kind |-> "missing", s |-> <<>>]

NoId == ""

\* SDK: signBody(body) at client clock ts, for SDK placeholders PROJECT_ID
\* and API_KEY
signBody(body, ts, PROJECT_ID, API_KEY) ==
    LET payload == [ts |-> ts, projectId |-> PROJECT_ID, url |-> body.url]
        sig     == hmacSHA256(API_KEY, payload)
    IN  [body EXCEPT !.ts = TsNum(ts), !.sig = SigStr(sig)]

(* Stored projects *)
NoProject == [found |-> FALSE, id |-> NoId, apiKey |-> "", allowedOrigins |-> <<>>]

\* Project.findById(id) on the Project collection `projects` (id -> document)
findById(projects, id) ==
    IF id \in DOMAIN projects THEN projects[id] ELSE NoProject

\* JavaScript truthiness of the four signature fields
TsTruthy(ts) == ts.kind \in {"numstr", "text"} \/ (ts.kind = "num" /\ ts.n # 0)

SigTruthy(sig) == sig.kind = "other" \/ (sig.kind = "str" /\ sig.s # <<>>)

\* mutant: userId is required beside the four signed fields
FieldsPresentWithUser(data) ==
    /\ data.projectId # NoId
    /\ TsTruthy(data.ts)
    /\ SigTruthy(data.sig)
    /\ data.url # <<>>
    /\ data.userId # ""

FieldsPresent(data) ==
    /\ data.projectId # NoId
    /\ TsTruthy(data.ts)
    /\ SigTruthy(data.sig)
    /\ data.url # <<>>

\* Number(_ts): nan for a string that is not a number
NumberOf(ts) == [nan |-> ts.kind \in {"text", "missing"}, n |-> ts.n]

Abs(x) == IF x < 0 THEN 0 - x ELSE x

\* mutant: the boundary |now - ts| = window counts as expired
TimestampOutOfWindowGe(clock, ts) ==
    NumberOf(ts).nan \/ Abs(clock - NumberOf(ts).n) >= SIGNING_WINDOW_MS

\* isNaN(ts) || Math.abs(now - ts) > SIGNING_WINDOW_MS
TimestampOutOfWindow(clock, ts) ==
    NumberOf(ts).nan \/ Abs(clock - NumberOf(ts).n) > SIGNING_WINDOW_MS

Reject(error, code) ==
    [ok |-> FALSE, status |-> 401, error |-> error, code |-> code,
     project |-> NoProject]

\* crypto.timingSafeEqual(a, b): throws when the byte lengths differ
TimingSafeEqualThrows(a, b) == Len(a) # Len(b)

\* a comparison that accepts every string signature
SignatureMatchesAny(sig, expectedSig) == sig.kind = "str"

\* the signature comparison of verifySignature, given the expected hex string
SignatureMatches(sig, expectedSig) ==
    /\ sig.kind = "str"
    /\ Len(sig.s) = Len(expectedSig)
    /\ ~TimingSafeEqualThrows(HexDecode(sig.s), HexDecode(expectedSig))
    /\ HexDecode(sig.s) = HexDecode(expectedSig)

\* the body verifySignature works on: req.body, or the re-parsed rawBody
\* when the body arrived empty (sendBeacon)
EmptyBody == [projectId |-> NoId, url |-> <<>>, ts |-> TsMissing, sig |-> SigMissing]

SignatureData(req) ==
    IF req.body = EmptyBody /\ req.rawBody.kind = "json" THEN req.rawBody.data
    ELSE req.body

\* mutant: the project is resolved before the timestamp is looked at
verifySignatureProjectFirst(req, clock, projects) ==
    LET data    == SignatureData(req)
        project == IF req.resolvedProject.found THEN req.resolvedProject
                   ELSE findById(projects, data.projectId)
    IN  IF ~FieldsPresent(data)
        THEN Reject("Missing signature fields", "SIGNATURE_MISSING")
        ELSE IF ~project.found \/ project.apiKey = ""
        THEN Reject("Invalid project", "SIGNATURE_INVALID")
        ELSE IF TimestampOutOfWindow(clock, data.ts)
        THEN Reject("Request timestamp out of allowed window", "SIGNATURE_EXPIRED")
        ELSE IF ~SignatureMatches(data.sig,
                                  computeSignature(NumberOf(data.ts).n, data.projectId,
                                                   data.url, project.apiKey))
        THEN Reject("Invalid request signature", "SIGNATURE_INVALID")
        ELSE [ok |-> TRUE, status |-> 200, error |-> "", code |-> "",
              project |-> project]

\* verifySignature(req, res, next) at server clock `now`, with the project
\* Project collection `projects` and req.resolvedProject
verifySignature(req, clock, projects) ==
    LET data == SignatureData(req)
    IN  IF ~FieldsPresent(data)
        THEN Reject("Missing signature fields", "SIGNATURE_MISSING")
        ELSE IF TimestampOutOfWindow(clock, data.ts)
        THEN Reject("Request timestamp out of allowed window", "SIGNATURE_EXPIRED")
        ELSE LET project == IF req.resolvedProject.found THEN req.resolvedProject
                            ELSE findById(projects, data.projectId)
             IN  IF ~project.found \/ project.apiKey = ""
                 THEN Reject("Invalid project", "SIGNATURE_INVALID")
                 ELSE LET expectedSig ==
                              computeSignature(NumberOf(data.ts).n, data.projectId,
                                               data.url, project.apiKey)
                      IN  IF ~SignatureMatches(data.sig, expectedSig)
                          THEN Reject("Invalid request signature", "SIGNATURE_INVALID")
                          ELSE [ok |-> TRUE, status |-> 200, error |-> "", code |-> "",
                                project |-> project]

\* projectLookupMiddleware: req.resolvedProject from req.body.projectId
projectLookupMiddleware(req, projects) ==
    IF req.body.projectId # NoId /\ findById(projects, req.body.projectId).found
    THEN [req EXCEPT !.resolvedProject = findById(projects, req.body.projectId)]
    ELSE req

(***************************************************************************)
(* SpecSig: the SDK signs a body, the body may be altered in transit, and  *)
(* the server verifies it                                                  *)
(***************************************************************************)
SigProjects == {"p1", "p2", "p3"}

\* the Project collection of SpecSig: p1 and p2 hold a key, p3 holds none,
\* any other id is not stored
SigProjectStore ==
    [ id \in SigProjects |->
        [ found |-> TRUE, id |-> id,
          apiKey |-> CASE id = "p1" -> "k1" [] id = "p2" -> "k2" [] OTHER -> "",
          allowedOrigins |-> <<>> ] ]

SigIds == {"p1", "p2", "p3", "p9"}

SigKeys == {"k1", "k2"}

SigUrls == {<<"/", "a">>, <<"/", "b">>}

SigNows == {500000, 500001}

SigTimestamps == {100000, 199999, 200000, 200001, 500000, 800000, 800001}

JsonBody(b) == [kind |-> "json", data |-> b]

NoRawBody == [kind |-> "none", data |-> EmptyBody]

GarbageRawBody == [kind |-> "garbage", data |-> EmptyBody]

\* how the body reaches verifySignature: parsed by express.json (rawBody
\* kept beside it), or left empty with only rawBody (sendBeacon blob)
Transports == {"parsed", "rawOnly", "garbage"}

Wire(body, transport) ==
    [ body            |-> IF transport = "parsed" THEN body ELSE EmptyBody,
      rawBody         |-> IF transport = "garbage" THEN GarbageRawBody ELSE JsonBody(body),
      resolvedProject |-> NoProject ]

\* a hexadecimal string of the same length that differs in its first digit
FlipFirst(chars) ==
    [chars EXCEPT ![1] = IF chars[1] = "0" THEN "1" ELSE "0"]

SigTampers(sig) ==
    { SigStr(ToUpper(sig.s)), SigStr(FlipFirst(sig.s)),
      SigStr(SubSeq(sig.s, 1, Len(sig.s) - 1)),
      SigStr([sig.s EXCEPT ![Len(sig.s)] = "z"]),
      SigStr(sig.s \o <<"0">>),
      SigNonString, SigMissing } \ {sig}

TsTampers(ts) ==
    ({ TsNum(n) : n \in SigTimestamps \cup {0} } \cup
     { TsNumStr(ts.n), TsText, TsMissing }) \ {ts}

InitSig ==
    /\ MainAtRest
    /\ input \in [ stage    : {"body"},
                   body     : [projectId : {NoId}, url : SigUrls,
                               ts : {TsMissing}, sig : {SigMissing}],
                   sdkId    : SigIds,
                   sdkKey   : SigKeys,
                   clientTs : SigTimestamps,
                   now      : SigNows,
                   tampered : {"none"} ]
    /\ output = Pending

\* the SDK fills in projectId and signs
SdkSign ==
    /\ input.stage = "body"
    /\ LET body   == [input.body EXCEPT !.projectId = input.sdkId]
           signed == signBody(body, input.clientTs, input.sdkId, input.sdkKey)
       IN  input' = [ stage |-> "signed", signed |-> signed, sent |-> signed,
                      sdkId |-> input.sdkId, sdkKey |-> input.sdkKey,
                      now |-> input.now, tampered |-> "none" ]
    /\ UNCHANGED mainVars
    /\ UNCHANGED output

\* one field of the signed body is replaced in transit
Tamper ==
    /\ input.stage = "signed"
    /\ output = Pending
    /\ \/ \E v \in SigTampers(input.signed.sig) :
             input' = [input EXCEPT !.stage = "altered", !.tampered = "sig",
                                    !.sent.sig = v]
       \/ \E v \in (SigUrls \cup {<<>>}) \ {input.signed.url} :
             input' = [input EXCEPT !.stage = "altered", !.tampered = "url",
                                    !.sent.url = v]
       \/ \E v \in (SigIds \cup {NoId}) \ {input.signed.projectId} :
             input' = [input EXCEPT !.stage = "altered", !.tampered = "projectId",
                                    !.sent.projectId = v]
       \/ \E v \in TsTampers(input.signed.ts) :
             input' = [input EXCEPT !.stage = "altered", !.tampered = "ts",
                                    !.sent.ts = v]
    /\ UNCHANGED mainVars
    /\ UNCHANGED output

\* the server runs projectLookupMiddleware and verifySignature on the body
CallVerifySignature ==
    /\ input.stage \in {"signed", "altered"}
    /\ output = Pending
    /\ \E transport \in Transports :
          LET req == projectLookupMiddleware(Wire(input.sent, transport), SigProjectStore)
          IN  output' = [ result    |-> verifySignature(req, input.now, SigProjectStore),
                          transport |-> transport ]
    /\ UNCHANGED mainVars
    /\ UNCHANGED input

NextSig == SdkSign \/ Tamper \/ CallVerifySignature

SpecSig == InitSig /\ [][NextSig]_vars

Verified == output # Pending /\ output.transport # "garbage"

InWindow(clock, n) == Abs(clock - n) <= SIGNING_WINDOW_MS

\* the SDK holds the apiKey stored for its project
SdkHoldsProjectKey ==
    /\ findById(SigProjectStore, input.sdkId).found
    /\ findById(SigProjectStore, input.sdkId).apiKey = input.sdkKey

\* C2: a body signed by the SDK with the project's apiKey, inside the
\* window, is accepted; once _sig, url or projectId of that body is
\* replaced by any different value the request is rejected.
C2_SignatureRoundTrip ==
    (Verified /\ SdkHoldsProjectKey) =>
        /\ ( input.tampered = "none" /\ InWindow(input.now, input.signed.ts.n) )
              => output.result.ok
        /\ input.tampered \in {"sig", "url", "projectId"} => ~output.result.ok

\* C3: with all four fields present the request is rejected as
\* SIGNATURE_EXPIRED exactly when _ts is not a number or |now - _ts| exceeds
\* SIGNING_WINDOW_MS (the boundary is inside the window, in the past and in
\* the future); a request signed at now - 400000 is rejected as expired.
C3_ExpiredExactlyOutsideWindow ==
    (Verified /\ FieldsPresent(input.sent)) =>
        /\ output.result.code = "SIGNATURE_EXPIRED" <=>
              ( input.sent.ts.kind = "text"
                \/ Abs(input.now - input.sent.ts.n) > SIGNING_WINDOW_MS )
        /\ ( input.tampered = "none" /\ input.sent.ts.n = input.now - 400000 )
              => output.result.code = "SIGNATURE_EXPIRED"

\* C3 witness: a validly signed request 400000 ms old was rejected as expired
C3_Witness ==
    /\ Verified
    /\ input.tampered = "none"
    /\ findById(SigProjectStore, input.sdkId).apiKey = input.sdkKey
    /\ input.sent.ts.n = input.now - 400000
    /\ output.result.code = "SIGNATURE_EXPIRED"

\* the request carries its four signature fields and a timestamp inside the
\* window
PresentAndInWindow ==
    /\ input.sent.projectId # NoId
    /\ input.sent.url # <<>>
    /\ SigTruthy(input.sent.sig)
    /\ TsTruthy(input.sent.ts)
    /\ input.sent.ts.kind \in {"num", "numstr"}
    /\ InWindow(input.now, input.sent.ts.n)

\* the projectId of the request names no stored project, or one without apiKey
ProjectUnresolved ==
    \/ input.sent.projectId \notin SigProjects
    \/ SigProjectStore[input.sent.projectId].apiKey = ""

\* C13: a request whose project is not stored or holds no apiKey is rejected
\* as "Invalid project" with an error code other than the SIGNATURE_INVALID
\* reported for a signature mismatch.
C13_InvalidProjectHasOwnCode ==
    ( Verified /\ PresentAndInWindow /\ ProjectUnresolved ) =>
        /\ ~output.result.ok
        /\ output.result.error = "Invalid project"
        /\ output.result.code # "SIGNATURE_INVALID"

\* one of projectId, url, _ts, _sig is absent (or empty, or the number 0)
SomeFieldMissing ==
    \/ input.sent.projectId = NoId
    \/ input.sent.url = <<>>
    \/ input.sent.ts.kind = "missing"
    \/ (input.sent.ts.kind = "num" /\ input.sent.ts.n = 0)
    \/ input.sent.sig.kind = "missing"
    \/ (input.sent.sig.kind = "str" /\ input.sent.sig.s = <<>>)

\* _ts is not a number or lies outside the window
StampOutside ==
    \/ input.sent.ts.kind = "text"
    \/ ~InWindow(input.now, input.sent.ts.n)

\* C20: verifySignature reports the first failing check in the order
\* fields present, timestamp inside the window, project and secret
\* resolved, signature equal: a missing field gives SIGNATURE_MISSING
\* whatever else is wrong, and an out-of-window _ts gives SIGNATURE_EXPIRED
\* even if the project is unknown or the signature is wrong.
C20_FirstFailingCheckReported ==
    Verified =>
        /\ SomeFieldMissing => output.result.code = "SIGNATURE_MISSING"
        /\ (~SomeFieldMissing /\ StampOutside)
              => output.result.code = "SIGNATURE_EXPIRED"
        /\ (~SomeFieldMissing /\ ~StampOutside /\ ProjectUnresolved)
              => output.result.error = "Invalid project"
        /\ (~SomeFieldMissing /\ ~StampOutside /\ ~ProjectUnresolved
              /\ ~output.result.ok)
              => output.result.error = "Invalid request signature"

\* C20 witness: a request with all four fields, a timestamp outside the
\* window, an unknown project and an altered signature was rejected as
\* expired
C20_Witness ==
    /\ Verified
    /\ ~SomeFieldMissing
    /\ StampOutside
    /\ input.sent.projectId \notin SigProjects
    /\ input.tampered = "sig"
    /\ output.result.code = "SIGNATURE_EXPIRED"

(***************************************************************************)
(* Origin validator                                                        *)
(***************************************************************************)
RECURSIVE StripTrailingSlashes(_)
\* s.replace(/\/+$/, '')
StripTrailingSlashes(s) ==
    IF s # <<>> /\ s[Len(s)] = "/" THEN StripTrailingSlashes(SubSeq(s, 1, Len(s) - 1))
    ELSE s

\* normalizeOrigin(raw)
normalizeOrigin(raw) == ToLower(StripTrailingSlashes(Trim(raw)))

HttpsPrefix == <<"h", "t", "t", "p", "s", ":", "/", "/">>

HttpPrefix == <<"h", "t", "t", "p", ":", "/", "/">>

RECURSIVE TakeHost(_)
\* the characters before the first of / : ? #
TakeHost(s) ==
    IF s = <<>> \/ Head(s) \in {"/", ":", "?", "#"} THEN <<>>
    ELSE <<Head(s)>> \o TakeHost(Tail(s))

\* `new URL(origin).hostname` for http(s) URLs: [throws, hostname]
URLHostname(origin) ==
    LET t    == ToLower(Trim(origin))
        rest == IF StartsWith(t, HttpsPrefix) THEN SubSeq(t, 9, Len(t))
                ELSE IF StartsWith(t, HttpPrefix) THEN SubSeq(t, 8, Len(t))
                ELSE <<>>
        host == TakeHost(rest)
    IN  [throws |-> host = <<>>, hostname |-> host]

\* allowed.startsWith('https://*.') || allowed.startsWith('http://*.')
IsWildcardEntry(allowed) ==
    \/ StartsWith(allowed, HttpsPrefix \o <<"*", ".">>)
    \/ StartsWith(allowed, HttpPrefix \o <<"*", ".">>)

\* mutant: the leading dot is stripped together with the star
wildcardBaseDomainNoDot(allowed) ==
    IF StartsWith(allowed, HttpsPrefix) THEN SubSeq(allowed, 11, Len(allowed))
    ELSE SubSeq(allowed, 10, Len(allowed))

\* allowed.replace(/^https?:\/\/\*/, ''), e.g. ".example.com"
wildcardBaseDomain(allowed) ==
    IF StartsWith(allowed, HttpsPrefix \o <<"*">>) THEN SubSeq(allowed, 10, Len(allowed))
    ELSE IF StartsWith(allowed, HttpPrefix \o <<"*">>) THEN SubSeq(allowed, 9, Len(allowed))
    ELSE allowed

\* the callback of project.allowedOrigins.some(...)
originMatchesEntry(origin, allowed) ==
    IF normalizeOrigin(origin) = normalizeOrigin(allowed) THEN TRUE
    ELSE IF IsWildcardEntry(allowed)
         THEN LET baseDomain == wildcardBaseDomain(allowed)
                  url        == URLHostname(origin)
              IN  IF url.throws THEN FALSE
                  ELSE \/ EndsWith(url.hostname, baseDomain)
                       \/ url.hostname = SubSeq(baseDomain, 2, Len(baseDomain))
         ELSE FALSE

RECURSIVE SplitCommasNoTrim(_)
\* mutant: the pieces of the list are not trimmed
SplitCommasNoTrim(s) ==
    IF \E i \in 1..Len(s) : s[i] = ","
    THEN LET i == CHOOSE k \in 1..Len(s) : s[k] = "," /\ \A j \in 1..(k-1) : s[j] # ","
         IN  <<SubSeq(s, 1, i - 1)>> \o SplitCommasNoTrim(SubSeq(s, i + 1, Len(s)))
    ELSE <<s>>

RECURSIVE SplitCommas(_)
\* s.split(','), each piece trimmed
SplitCommas(s) ==
    IF \E i \in 1..Len(s) : s[i] = ","
    THEN LET i == CHOOSE k \in 1..Len(s) : s[k] = "," /\ \A j \in 1..(k-1) : s[j] # ","
         IN  <<Trim(SubSeq(s, 1, i - 1))>> \o SplitCommas(SubSeq(s, i + 1, Len(s)))
    ELSE <<Trim(s)>>

NoOrigin == <<>>

\* mutant: a request without Origin goes through the allow-lists like any
\* other
isAllowedTrackingOriginStrict(origin, project, env) ==
    IF project.found /\ Len(project.allowedOrigins) > 0
    THEN \E i \in 1..Len(project.allowedOrigins) :
             originMatchesEntry(origin, project.allowedOrigins[i])
    ELSE LET globalOrigins == IF env.ALLOWED_ORIGINS # <<>>
                              THEN SplitCommas(env.ALLOWED_ORIGINS) ELSE <<>>
         IN  IF Len(globalOrigins) = 0 THEN env.NODE_ENV # "production"
             ELSE \E i \in 1..Len(globalOrigins) : globalOrigins[i] = origin

\* isAllowedTrackingOrigin(origin, project) under process.env
\* (env.ALLOWED_ORIGINS: the variable's text, empty when unset; env.NODE_ENV)
isAllowedTrackingOrigin(origin, project, env) ==
    IF origin = NoOrigin THEN TRUE
    ELSE IF project.found /\ Len(project.allowedOrigins) > 0
         THEN \E i \in 1..Len(project.allowedOrigins) :
                  originMatchesEntry(origin, project.allowedOrigins[i])
         ELSE LET globalOrigins == IF env.ALLOWED_ORIGINS # <<>>
                                   THEN SplitCommas(env.ALLOWED_ORIGINS) ELSE <<>>
              IN  IF Len(globalOrigins) = 0 THEN env.NODE_ENV # "production"
                  ELSE \E i \in 1..Len(globalOrigins) : globalOrigins[i] = origin

(***************************************************************************)
(* SpecOrigin: isAllowedTrackingOrigin applied to bounded origins,         *)
(* allow-lists and environments                                            *)
(***************************************************************************)
MaxLabels == 4

L_example == <<"e", "x", "a", "m", "p", "l", "e">>

L_com == <<"c", "o", "m">>

L_evil == <<"e", "v", "i", "l">>

L_sub == <<"s", "u", "b">>

HostLabels == {L_example, L_com, L_evil, L_sub}

RECURSIVE JoinDots(_)
JoinDots(labels) ==
    IF labels = <<>> THEN <<>>
    ELSE IF Len(labels) = 1 THEN labels[1]
    ELSE labels[1] \o <<".">> \o JoinDots(Tail(labels))

H_notexample_com == <<"n", "o", "t", "e", "x", "a", "m", "p", "l", "e", ".", "c", "o", "m">>

H_example_com == JoinDots(<<L_example, L_com>>)

Hosts ==
    { JoinDots(ls) : ls \in SeqsUpTo(HostLabels, MaxLabels) \ {<<>>} }
        \cup {H_notexample_com, ToUpper(H_example_com)}

Schemes == {HttpsPrefix, HttpPrefix}

OriginSuffixes == {<<>>, <<":", "8">>, <<"/">>}

\* what the Origin header holds: none, "null", or scheme://host[suffix]
OriginNull == <<"n", "u", "l", "l">>

OriginText(o) ==
    CASE o.kind = "none" -> NoOrigin
      [] o.kind = "null" -> OriginNull
      [] OTHER           -> o.scheme \o o.host \o o.suffix

OriginInputs ==
    [kind : {"url"}, scheme : Schemes, host : Hosts, suffix : OriginSuffixes]
        \cup { [kind |-> k, scheme |-> <<>>, host |-> <<>>, suffix |-> <<>>] :
                 k \in {"none", "null"} }

WildcardDomains == {H_example_com, L_com, ToUpper(H_example_com)}

Wildcard(scheme, domain) == scheme \o <<"*", ".">> \o domain

ProjectWith(list) ==
    [found |-> TRUE, id |-> "p1", apiKey |-> "k1", allowedOrigins |-> list]

EnvOf(origins, nodeEnv) == [ALLOWED_ORIGINS |-> origins, NODE_ENV |-> nodeEnv]

DevEnv == EnvOf(<<>>, "development")

AllowLists ==
    { <<Wildcard(sch, d)>> : sch \in Schemes, d \in WildcardDomains }
        \cup { <<HttpsPrefix \o H_example_com>>,
               <<ToUpper(HttpsPrefix \o H_example_com) \o <<"/">>>>,
               <<HttpsPrefix \o JoinDots(<<L_evil, L_com>>),
                 Wildcard(HttpsPrefix, H_example_com)>> }

Envs ==
    { EnvOf(o, n) :
        o \in {<<>>, HttpsPrefix \o H_example_com \o <<",", " ">> \o HttpPrefix \o L_com},
        n \in {"production", "development"} }

OriginCases ==
    { [project |-> ProjectWith(l), env |-> DevEnv] : l \in AllowLists }
        \cup { [project |-> p, env |-> e] : p \in {NoProject, ProjectWith(<<>>)}, e \in Envs }

InitOrigin ==
    /\ MainAtRest
    /\ input \in { [origin |-> o, project |-> c.project, env |-> c.env] :
                     o \in OriginInputs, c \in OriginCases }
    /\ output = Pending

CallIsAllowedTrackingOrigin ==
    /\ output = Pending
    /\ output' = [result |-> isAllowedTrackingOrigin(OriginText(input.origin),
                                                     input.project, input.env)]
    /\ UNCHANGED mainVars
    /\ UNCHANGED input

NextOrigin == CallIsAllowedTrackingOrigin

SpecOrigin == InitOrigin /\ [][NextOrigin]_vars

\* the project's allow-list is the single entry "https://*.<domain>"
OnlyHttpsWildcard(domain) ==
    input.project.allowedOrigins = <<Wildcard(HttpsPrefix, domain)>>

\* C10: with allowedOrigins = ["https://*.D"] an origin is accepted iff its
\* hostname equals D or ends with ".D"; for D = example.com,
\* https://sub.example.com is accepted and https://example.com.evil.com and
\* https://notexample.com are rejected.
C10_WildcardOrigin ==
    (output # Pending /\ input.origin.kind # "none") =>
        /\ \A d \in WildcardDomains :
              OnlyHttpsWildcard(d) =>
                  ( output.result <=>
                      /\ input.origin.kind = "url"
                      /\ \/ ToLower(input.origin.host) = d
                         \/ EndsWith(ToLower(input.origin.host), <<".">> \o d) )
        /\ ( OnlyHttpsWildcard(H_example_com) /\ input.origin.kind = "url"
             /\ input.origin.scheme = HttpsPrefix /\ input.origin.suffix = <<>> ) =>
              /\ input.origin.host = JoinDots(<<L_sub, L_example, L_com>>)
                    => output.result
              /\ input.origin.host = JoinDots(<<L_example, L_com, L_evil, L_com>>)
                    => ~output.result
              /\ input.origin.host = H_notexample_com => ~output.result

\* C10 witness: https://notexample.com was rejected by ["https://*.example.com"]
C10_Witness ==
    /\ output # Pending
    /\ OnlyHttpsWildcard(H_example_com)
    /\ input.origin.kind = "url"
    /\ input.origin.scheme = HttpsPrefix
    /\ input.origin.suffix = <<>>
    /\ input.origin.host = H_notexample_com
    /\ output.result = FALSE

\* C22: a wildcard entry matches only origins of its own scheme: the
\* single entry https://*.D does not accept http://sub.D, and http://*.D
\* does not accept https://sub.D.
C22_WildcardSchemeMustMatch ==
    \A sch \in Schemes, d \in WildcardDomains :
        ( /\ output # Pending
          /\ input.origin.kind = "url"
          /\ input.project.found
          /\ input.project.allowedOrigins = <<Wildcard(sch, d)>>
          /\ input.origin.scheme # sch ) => ~output.result

\* C23: a request that carries no Origin header is allowed for every
\* project: none, one with a non-empty allowedOrigins list, and one with an
\* empty list in a production deployment whose global list is empty too.
C23_NoOriginAlwaysAllowed ==
    (output # Pending /\ input.origin.kind = "none") => output.result

\* C23 witness: no Origin, no project, production, empty global list
C23_Witness ==
    /\ output # Pending
    /\ input.origin.kind = "none"
    /\ ~input.project.found
    /\ input.env.NODE_ENV = "production"
    /\ input.env.ALLOWED_ORIGINS = <<>>
    /\ output.result

\* the origins named by the global ALLOWED_ORIGINS text of Envs
GlobalOrigins == {HttpsPrefix \o H_example_com, HttpPrefix \o L_com}

\* C11: with no project or an empty project allow-list, a present Origin is
\* allowed iff it is a member of the global ALLOWED_ORIGINS list; when that
\* list is empty too it is allowed iff NODE_ENV is not production.
C11_OriginFallbackChain ==
    ( /\ output # Pending
      /\ input.origin.kind # "none"
      /\ (~input.project.found \/ input.project.allowedOrigins = <<>>) ) =>
        ( output.result <=>
            IF input.env.ALLOWED_ORIGINS = <<>>
            THEN input.env.NODE_ENV # "production"
            ELSE OriginText(input.origin) \in GlobalOrigins )

\* C11 witness: without a project, in production, http://com was allowed as
\* the second entry of the global list
C11_Witness ==
    /\ output # Pending
    /\ ~input.project.found
    /\ input.env.NODE_ENV = "production"
    /\ input.env.ALLOWED_ORIGINS # <<>>
    /\ OriginText(input.origin) = HttpPrefix \o L_com
    /\ output.result = TRUE

(***************************************************************************)
(* Creative selector                                                       *)
(*                                                                         *)
(* Math.random() is the draw k / DrawSteps, k in 0..DrawSteps-1; the scan  *)
(* runs on numbers scaled by DrawSteps so that it stays in the integers.   *)
(***************************************************************************)
DrawSteps == 2

Draws == 0..(DrawSteps - 1)

NoWeight == -1

\* mutant: a missing weight counts as 1
weightOfOne(c) == IF c.distribution = NoWeight THEN 1 ELSE c.distribution

\* (c.distribution || 0)
weightOf(c) == IF c.distribution = NoWeight THEN 0 ELSE c.distribution

RECURSIVE totalDistribution(_)
totalDistribution(creatives) ==
    IF creatives = <<>> THEN 0
    ELSE weightOf(Head(creatives)) + totalDistribution(Tail(creatives))

NoSelection == [found |-> FALSE, index |-> 0]

RECURSIVE scanCreativesStrict(_, _, _)
\* mutant: the scan stops only when the remainder is below 0
scanCreativesStrict(creatives, i, random) ==
    IF i >= Len(creatives) THEN [found |-> TRUE, index |-> 0]
    ELSE LET rest == random - weightOf(creatives[i + 1]) * DrawSteps
         IN  IF rest < 0 THEN [found |-> TRUE, index |-> i]
             ELSE scanCreativesStrict(creatives, i + 1, rest)

RECURSIVE scanCreatives(_, _, _)
\* the for loop of selectCreative from 0-based index i with `random`
\* (scaled) still to consume; index 0 when the loop runs out
scanCreatives(creatives, i, random) ==
    IF i >= Len(creatives) THEN [found |-> TRUE, index |-> 0]
    ELSE LET rest == random - weightOf(creatives[i + 1]) * DrawSteps
         IN  IF rest <= 0 THEN [found |-> TRUE, index |-> i]
             ELSE scanCreatives(creatives, i + 1, rest)

\* selectCreative(creatives) with Math.random() = k / DrawSteps
selectCreative(creatives, k) ==
    IF Len(creatives) = 0 THEN NoSelection
    ELSE IF totalDistribution(creatives) = 0 THEN [found |-> TRUE, index |-> 0]
    ELSE scanCreatives(creatives, 0, k * totalDistribution(creatives))

(***************************************************************************)
(* SpecSelect: selectCreative applied to bounded lists of weights and      *)
(* every draw                                                              *)
(***************************************************************************)
MaxCreatives == 3

Weights == {NoWeight, 0, 1, 2}

WeightLists == SeqsUpTo([distribution : Weights], MaxCreatives)

InitSelect ==
    /\ MainAtRest
    /\ input \in [creatives : WeightLists, k : Draws]
    /\ output = Pending

CallSelectCreative ==
    /\ output = Pending
    /\ output' = selectCreative(input.creatives, input.k)
    /\ UNCHANGED mainVars
    /\ UNCHANGED input

NextSelect == CallSelectCreative

SpecSelect == InitSelect /\ [][NextSelect]_vars

\* every weight of the list is 0, missing ones counted as 0
AllWeightsZero ==
    \A i \in 1..Len(input.creatives) :
        input.creatives[i].distribution \in {0, NoWeight}

\* C12: for a non-empty list whose weights sum to 0 (missing weights
\* counted as 0) selectCreative returns index 0 whatever the draw.
C12_ZeroDistributionFallback ==
    ( output # Pending /\ input.creatives # <<>> /\ AllWeightsZero ) =>
        ( output.found /\ output.index = 0 )

\* C12 witness: [{distribution: 0}, {distribution: 0}] with a non-zero draw
\* gave index 0
C12_Witness ==
    /\ output # Pending
    /\ input.creatives = <<[distribution |-> 0], [distribution |-> 0]>>
    /\ input.k > 0
    /\ output.found
    /\ output.index = 0

\* the weight of the creative at 0-based position i, a missing one as 0
WeightAt(i) ==
    IF input.creatives[i + 1].distribution = NoWeight THEN 0
    ELSE input.creatives[i + 1].distribution

RECURSIVE RunningSum(_)
\* w_0 + ... + w_i
RunningSum(i) == IF i < 0 THEN 0 ELSE WeightAt(i) + RunningSum(i - 1)

TotalWeight == RunningSum(Len(input.creatives) - 1)

\* the running sum up to i has reached the draw r = k / DrawSteps * total
ReachesDraw(i) == RunningSum(i) * DrawSteps >= input.k * TotalWeight

\* C24: when the total weight is > 0, for every draw r in [0, total)
\* selectCreative returns the smallest index i with w_0 + ... + w_i >= r.
C24_WeightedScanFirstReaching ==
    ( output # Pending /\ input.creatives # <<>> /\ TotalWeight > 0 ) =>
        /\ output.found
        /\ output.index \in 0..(Len(input.creatives) - 1)
        /\ ReachesDraw(output.index)
        /\ \A j \in 0..(output.index - 1) : ~ReachesDraw(j)

\* C24 witness: weights 0, 1, 1 and the first draw above 0 gave index 1,
\* the first index whose running sum reaches it
C24_Witness ==
    /\ output # Pending
    /\ input.creatives = <<[distribution |-> 0], [distribution |-> 1],
                           [distribution |-> 1]>>
    /\ input.k = 1
    /\ output.index = 1

\* C29: when the total weight is > 0, selectCreative never returns a
\* creative whose distribution is 0 or missing, for any draw r in
\* [0, total) including r = 0, and the returned index is a valid position.
C29_NeverZeroWeightCreative ==
    ( output # Pending /\ input.creatives # <<>> /\ TotalWeight > 0 ) =>
        /\ output.found
        /\ output.index \in 0..(Len(input.creatives) - 1)
        /\ WeightAt(output.index) > 0

(***************************************************************************)
(* Assignment orchestrator: POST /api/abtests/execute                      *)
(***************************************************************************)
NullDate == -1

F_Other == <<"O", "t", "h", "e", "r">>

F_Desktop == <<"D", "e", "s", "k", "t", "o", "p">>

F_iPad == <<"i", "P", "a", "d">>

F_iPhone == <<"i", "P", "h", "o", "n", "e">>

F_Spider == <<"S", "p", "i", "d", "e", "r">>

\* useragent.parse(userAgent): device family, browser family, os family
ParseUserAgent(userAgent) ==
    CASE userAgent = "ua-desktop" ->
            [device |-> F_Other, family |-> S_Chrome, os |-> S_Win]
      [] userAgent = "ua-iphone" ->
            [device |-> F_iPhone, family |-> S_Safari, os |-> <<"i", "O", "S">>]
      [] userAgent = "ua-ipad" ->
            [device |-> F_iPad, family |-> S_Safari, os |-> <<"i", "O", "S">>]
      [] userAgent = "ua-bot" ->
            [device |-> F_Spider, family |-> F_Other, os |-> F_Other]
      [] OTHER ->
            [device |-> F_Other, family |-> F_Other, os |-> F_Other]

deviceTypeOf(deviceFamily) ==
    IF deviceFamily = F_Other \/ deviceFamily = F_Desktop THEN S_PC
    ELSE IF Includes(deviceFamily, F_iPad) \/ Includes(deviceFamily, <<"T", "a", "b", "l", "e", "t">>)
         THEN <<"T", "a", "b", "l", "e", "t">>
    ELSE IF \/ Includes(deviceFamily, F_iPhone)
            \/ Includes(deviceFamily, <<"A", "n", "d", "r", "o", "i", "d">>)
            \/ Includes(deviceFamily, <<"M", "o", "b", "i", "l", "e">>)
         THEN S_SP
    ELSE <<"o", "t", "h", "e", "r">>

\* the userContext built from the request body
userContextOf(body) ==
    LET agent == ParseUserAgent(body.userAgent)
    IN  [ url        |-> body.url,
          device     |-> deviceTypeOf(agent.device),
          browser    |-> agent.family,
          os         |-> agent.os,
          language   |-> IF body.language = <<>> THEN <<"u", "n", "k", "n", "o", "w", "n">> ELSE body.language,
          visitCount |-> body.visitCount,
          referrer   |-> body.referrer ]

\* mutant: excludeUrl is not looked at
passesFiltersNoExclude(abtest, url, context, clock) ==
    IF abtest.startDate # NullDate /\ clock < abtest.startDate THEN FALSE
    ELSE IF abtest.endDate # NullDate /\ clock > abtest.endDate THEN FALSE
    ELSE IF ~IsBlank(abtest.targetUrl) /\ ~matchUrl(url, abtest.targetUrl) THEN FALSE
    ELSE checkConditions(abtest.conditions, context)

\* the four `continue` filters of the loop body, in order
passesFilters(abtest, url, context, clock) ==
    IF abtest.startDate # NullDate /\ clock < abtest.startDate THEN FALSE
    ELSE IF abtest.endDate # NullDate /\ clock > abtest.endDate THEN FALSE
    ELSE IF ~IsBlank(abtest.targetUrl) /\ ~matchUrl(url, abtest.targetUrl) THEN FALSE
    ELSE IF ~IsBlank(abtest.excludeUrl) /\ matchUrl(url, abtest.excludeUrl) THEN FALSE
    ELSE checkConditions(abtest.conditions, context)

NotMatched ==
    [status |-> 200, matched |-> FALSE, abtestId |-> 0, sessionDuration |-> 0,
     creative |-> [index |-> 0, isOriginal |-> FALSE, css |-> <<>>, javascript |-> <<>>]]

\* the res.json({matched: true, ...}) of a surviving test
MatchedResponse(abtest, index) ==
    [ status          |-> 200,
      matched         |-> TRUE,
      abtestId        |-> abtest.id,
      sessionDuration |-> IF abtest.sessionDuration = 0 THEN 720
                          ELSE abtest.sessionDuration,
      creative        |-> [ index      |-> index,
                            isOriginal |-> abtest.creatives[index + 1].isOriginal,
                            css        |-> abtest.creatives[index + 1].css,
                            javascript |-> abtest.creatives[index + 1].javascript ] ]

RECURSIVE executeLoopLast(_, _, _, _, _)
\* mutant: the scan does not stop at the first surviving test
executeLoopLast(abtests, url, context, clock, k) ==
    IF abtests = <<>> THEN NotMatched
    ELSE LET later == executeLoopLast(Tail(abtests), url, context, clock, k)
             first == Head(abtests)
         IN  IF later.matched THEN later
             ELSE IF passesFilters(first, url, context, clock)
                     /\ selectCreative(first.creatives, k).found
                  THEN MatchedResponse(first, selectCreative(first.creatives, k).index)
                  ELSE NotMatched

RECURSIVE executeLoop(_, _, _, _, _)
\* for (const abtest of abtests) { ... }
executeLoop(abtests, url, context, clock, k) ==
    IF abtests = <<>> THEN NotMatched
    ELSE LET abtest == Head(abtests)
             result == selectCreative(abtest.creatives, k)
         IN  IF passesFilters(abtest, url, context, clock) /\ result.found
             THEN MatchedResponse(abtest, result.index)
             ELSE executeLoop(Tail(abtests), url, context, clock, k)

\* ABTest.find({ projectId, active: true }), in stored order
findActiveTests(collection, projectId) ==
    SelectSeq(collection, LAMBDA a : a.projectId = projectId /\ a.active)

\* the route handler after verifySignature, at server clock `now`, with
\* Math.random() = k / DrawSteps
executeHandler(collection, body, clock, k) ==
    IF body.projectId = NoId
    THEN [NotMatched EXCEPT !.status = 400]
    ELSE LET abtests == findActiveTests(collection, body.projectId)
         IN  IF Len(abtests) = 0 THEN NotMatched
             ELSE executeLoop(abtests, body.url, userContextOf(body), clock, k)

(***************************************************************************)
(* SpecExec: the execute handler applied to bounded stores of tests        *)
(***************************************************************************)
MaxTests == 2

Creative(w, orig, css, js) ==
    [distribution |-> w, isOriginal |-> orig, css |-> css, javascript |-> js]

OrigAndB ==
    <<Creative(1, TRUE, <<"o">>, <<"o">>), Creative(3, FALSE, <<"c">>, <<"j">>)>>

BaseTest ==
    [ id |-> 0, projectId |-> "p1", active |-> TRUE,
      startDate |-> NullDate, endDate |-> NullDate,
      targetUrl |-> <<>>, excludeUrl |-> <<>>,
      sessionDuration |-> 1, conditions |-> NoConditions,
      creatives |-> OrigAndB ]

NoAxes ==
    [device |-> <<>>, browser |-> <<>>, os |-> <<>>, language |-> <<>>, other |-> <<>>]

TestPool ==
    { BaseTest,
      [BaseTest EXCEPT !.active = FALSE],
      [BaseTest EXCEPT !.projectId = "p2"],
      [BaseTest EXCEPT !.startDate = 150],
      [BaseTest EXCEPT !.endDate = 150, !.sessionDuration = 0],
      [BaseTest EXCEPT !.targetUrl = <<"a">>],
      [BaseTest EXCEPT !.targetUrl = <<"/", "b", "/">>],
      [BaseTest EXCEPT !.excludeUrl = <<"b">>],
      [BaseTest EXCEPT !.conditions =
          [NoAxes EXCEPT !.device = <<Entry(S_SP, "exact", <<>>)>>]],
      [BaseTest EXCEPT !.creatives = <<Creative(NoWeight, FALSE, <<"c">>, <<>>)>>] }

\* stored tests carry distinct ids: their position in the store
WithIds(tests) == [i \in 1..Len(tests) |-> [tests[i] EXCEPT !.id = i]]

Stores == { WithIds(ts) : ts \in SeqsUpTo(TestPool, MaxTests) }

ExecBodies ==
    [ projectId  : {"p1"},
      url        : {<<"/", "a">>, <<"/", "b">>},
      userAgent  : {"ua-desktop", "ua-iphone"},
      language   : {S_en},
      visitCount : {1},
      referrer   : {<<>>} ]

InitExec ==
    /\ MainAtRest
    /\ input \in [stored : Stores, body : ExecBodies, now : {100, 150, 200}, k : Draws]
    /\ output = Pending

CallExecute ==
    /\ output = Pending
    /\ output' = [result |-> executeHandler(input.stored, input.body, input.now, input.k)]
    /\ UNCHANGED mainVars
    /\ UNCHANGED input

NextExec == CallExecute

SpecExec == InitExec /\ [][NextExec]_vars

\* stored test number i is an active test of the requested project that
\* survives the date, targetUrl, excludeUrl and condition filters
Survives(i) ==
    LET t == input.stored[i]
    IN  /\ t.projectId = input.body.projectId
        /\ t.active
        /\ (t.startDate = NullDate \/ input.now >= t.startDate)
        /\ (t.endDate = NullDate \/ input.now <= t.endDate)
        /\ (IsBlank(t.targetUrl) \/ matchUrl(input.body.url, t.targetUrl))
        /\ (IsBlank(t.excludeUrl) \/ ~matchUrl(input.body.url, t.excludeUrl))
        /\ checkConditions(t.conditions, userContextOf(input.body))

Survivors == { i \in 1..Len(input.stored) : Survives(i) }

\* the stored test a matched response names
MatchedTest == input.stored[output.result.abtestId]

\* C21: every test returned with matched:true belongs to the requested
\* project, is active, has startDate <= now <= endDate (a null bound is
\* open, now equal to a bound is inside), matches targetUrl when one is
\* set, does not match excludeUrl when one is set, and passes
\* checkConditions.
C21_MatchedTestPassesFilters ==
    (output # Pending /\ output.result.matched) =>
        /\ output.result.abtestId \in 1..Len(input.stored)
        /\ MatchedTest.projectId = input.body.projectId
        /\ MatchedTest.active
        /\ MatchedTest.startDate # NullDate => MatchedTest.startDate <= input.now
        /\ MatchedTest.endDate # NullDate => input.now <= MatchedTest.endDate
        /\ ~IsBlank(MatchedTest.targetUrl)
              => matchUrl(input.body.url, MatchedTest.targetUrl)
        /\ ~IsBlank(MatchedTest.excludeUrl)
              => ~matchUrl(input.body.url, MatchedTest.excludeUrl)
        /\ checkConditions(MatchedTest.conditions, userContextOf(input.body))

\* C21 witness: a test whose endDate is the present instant was returned
\* after an earlier test had been skipped for its excludeUrl
C21_Witness ==
    /\ output # Pending
    /\ output.result.matched
    /\ output.result.abtestId = 2
    /\ MatchedTest.endDate = input.now
    /\ ~IsBlank(input.stored[1].excludeUrl)
    /\ matchUrl(input.body.url, input.stored[1].excludeUrl)

\* C7: the response is matched:true for the first test in stored order that
\* survives all filters, never for a later one, and matched:false iff no
\* active test of the project survives.
C7_FirstMatchWins ==
    output # Pending =>
        /\ output.result.matched <=> Survivors # {}
        /\ output.result.matched =>
              /\ output.result.abtestId \in Survivors
              /\ \A j \in Survivors : output.result.abtestId <= j

\* C7 witness: two stored tests survive and the first one is returned
C7_Witness ==
    /\ output # Pending
    /\ Cardinality(Survivors) >= 2
    /\ output.result.matched
    /\ output.result.abtestId = 1
    /\ 2 \in Survivors

(***************************************************************************)
(* Server routes of the tracking endpoints                                 *)
(***************************************************************************)
\* corsOriginCallback(req)(origin, cb): TRUE for cb(null, origin || true),
\* FALSE for cb(null, false)
corsOriginCallback(req, origin, env) ==
    isAllowedTrackingOrigin(origin, req.resolvedProject, env)

\* cors({origin: corsOriginCallback(req)})(req, res, next): the callback's
\* verdict decides whether Access-Control-Allow-Origin is set; next() is
\* called in both cases
corsMiddleware(req, origin, env) ==
    [allowOrigin |-> corsOriginCallback(req, origin, env), next |-> TRUE]

Unanswered ==
    [status |-> 0, allowOrigin |-> FALSE, verified |-> FALSE, ran |-> FALSE,
     result |-> NotMatched]

\* POST /api/abtests/execute: projectLookupMiddleware, cors, verifySignature,
\* then the handler
postExecute(origin, body, clock, k, abtests, projects, env) ==
    LET req  == projectLookupMiddleware(Wire(body, "parsed"), projects)
        cors == corsMiddleware(req, origin, env)
        sig  == verifySignature(req, clock, projects)
    IN  IF ~cors.next THEN Unanswered
        ELSE IF ~sig.ok
        THEN [status |-> sig.status, allowOrigin |-> cors.allowOrigin,
              verified |-> FALSE, ran |-> FALSE,
              result |-> [NotMatched EXCEPT !.status = sig.status]]
        ELSE LET result == executeHandler(abtests, body, clock, k)
             IN  [status |-> result.status, allowOrigin |-> cors.allowOrigin,
                  verified |-> TRUE, ran |-> TRUE, result |-> result]

\* a body without creativeIndex (creativeIndex === undefined)
NoCreativeIndex == -1

\* POST /api/abtests/log-impression: projectLookupMiddleware, cors,
\* verifyImpressionSignature, trackingLimiter (`limited` when it answers
\* 429), then the handler; `saved` when an ABTestLog was stored
postLogImpression(origin, body, clock, limited, projects, env) ==
    LET req  == projectLookupMiddleware(Wire(body, "parsed"), projects)
        cors == corsMiddleware(req, origin, env)
        sig  == verifySignature(req, clock, projects)
    IN  IF ~sig.ok THEN [status |-> sig.status, saved |-> FALSE]
        ELSE IF limited THEN [status |-> 429, saved |-> FALSE]
        ELSE IF body.projectId = NoId \/ body.apiKey = "" \/ body.abtestId = 0
                \/ body.userId = "" \/ body.creativeIndex = NoCreativeIndex
        THEN [status |-> 400, saved |-> FALSE]
        ELSE IF ~findById(projects, body.projectId).found
                \/ findById(projects, body.projectId).apiKey # body.apiKey
        THEN [status |-> 403, saved |-> FALSE]
        ELSE [status |-> 200, saved |-> TRUE]

WwwPrefix == <<"w", "w", "w", ".">>

\* s.replace(/^p/, '') for a literal prefix p
StripPrefix(s, p) == IF StartsWith(s, p) THEN SubSeq(s, Len(p) + 1, Len(s)) ELSE s

\* normalizeUrl(url): scheme, leading www. and one trailing slash removed,
\* lower case
normalizeUrl(url) ==
    LET noScheme == IF StartsWith(url, HttpsPrefix) THEN StripPrefix(url, HttpsPrefix)
                    ELSE StripPrefix(url, HttpPrefix)
        noWww    == StripPrefix(noScheme, WwwPrefix)
        noSlash  == IF noWww # <<>> /\ noWww[Len(noWww)] = "/"
                    THEN SubSeq(noWww, 1, Len(noWww) - 1) ELSE noWww
    IN  ToLower(noSlash)

\* POST /track: projectLookupMiddleware, cors, verifySignature,
\* trackingLimiter (`limited` when it answers 429), then trackerRoutes;
\* `saved` when a Log was stored
postTrack(origin, body, transport, clock, limited, projects, env) ==
    LET req     == projectLookupMiddleware(Wire(body, transport), projects)
        cors    == corsMiddleware(req, origin, env)
        sig     == verifySignature(req, clock, projects)
        data    == SignatureData(req)
        project == findById(projects, data.projectId)
    IN  IF ~sig.ok THEN [status |-> sig.status, saved |-> FALSE]
        ELSE IF limited THEN [status |-> 429, saved |-> FALSE]
        ELSE IF data.projectId = NoId \/ data.apiKey = "" \/ data.userId = ""
                \/ data.url = <<>> \/ data.event = ""
        THEN [status |-> 400, saved |-> FALSE]
        ELSE IF ~project.found \/ project.apiKey # data.apiKey
        THEN [status |-> 403, saved |-> FALSE]
        ELSE IF ~StartsWith(normalizeUrl(data.url), normalizeUrl(project.url))
        THEN [status |-> 403, saved |-> FALSE]
        ELSE [status |-> 200, saved |-> TRUE]

\* new Log({...}).save() of an accepted tracking event: one more stored Log
saveLog(collection) == collection + 1

\* mutant: one record per test is kept, a later impression replacing it
saveABTestLogOnce(collection, body) ==
    [collection EXCEPT ![body.abtestId] = 1]

\* new ABTestLog({...}).save() of an accepted impression
saveABTestLog(collection, body) ==
    [collection EXCEPT ![body.abtestId] = @ + 1]

\* ABTest.findById(abtestId): position in the store, 0 when not stored
findABTestById(abtests, abtestId) ==
    IF \E i \in 1..Len(abtests) : abtests[i].id = abtestId
    THEN CHOOSE i \in 1..Len(abtests) : abtests[i].id = abtestId
    ELSE 0

NoCreative == [index |-> 0, isOriginal |-> FALSE, css |-> <<>>, javascript |-> <<>>]

\* GET /api/abtests/:abtestId/creative/:creativeIndex
getCreative(origin, abtestId, creativeIndex, abtests, projects, env) ==
    LET at      == findABTestById(abtests, abtestId)
        project == IF at = 0 THEN NoProject ELSE findById(projects, abtests[at].projectId)
        parsed  == ParseInt(creativeIndex)
    IN  IF ~isAllowedTrackingOrigin(origin, project, env)
        THEN [NotMatched EXCEPT !.status = 403]
        ELSE IF at = 0 THEN [NotMatched EXCEPT !.status = 404]
        ELSE IF ~parsed.nan /\ (parsed.n < 0 \/ parsed.n >= Len(abtests[at].creatives))
        THEN [NotMatched EXCEPT !.status = 404]
        ELSE IF parsed.nan THEN [NotMatched EXCEPT !.status = 500]
        ELSE MatchedResponse(abtests[at], parsed.n)

(***************************************************************************)
(* Browser SDK (tracker-sdk-template.js)                                   *)
(***************************************************************************)
PROJECT_ID == "p1"

API_KEY == "k1"

NoParam == "absent"

\* shouldSkipTracking = ghVoid === '0' || ghVoid === '1'
shouldSkipTracking(ghVoid) == ghVoid = "0" \/ ghVoid = "1"

\* shouldSkipABTest = ghVoid === '1'
shouldSkipABTest(ghVoid) == ghVoid = "1"

\* isForceCreativeMode = ghId && ghCreative !== null
isForceCreativeMode(ghId, ghCreative) == ghId # 0 /\ ghCreative # <<NoParam>>

(* Session cache entries: localStorage['abtest_session_' + abtestId] *)
NoEntry == [kind |-> "none", creative |-> NoCreative, expiresAt |-> 0]

UnparsableEntry == [kind |-> "unparsable", creative |-> NoCreative, expiresAt |-> 0]

SessionEntry(creative, expiresAt) ==
    [kind |-> "entry", creative |-> creative, expiresAt |-> expiresAt]

\* mutant: the cache is never read back
getSessionDataNull(storage, abtestId) == NoEntry

\* getSessionData(abtestId): null (NoEntry) when absent or unparsable
getSessionData(storage, abtestId) ==
    IF storage.session[abtestId].kind = "entry" THEN storage.session[abtestId]
    ELSE NoEntry

\* mutant: no entry is ever valid
isSessionValidNever(sessionData, clock) == FALSE

\* isSessionValid(sessionData) at Date.now() = clock
isSessionValid(sessionData, clock) ==
    IF sessionData.kind # "entry" \/ sessionData.expiresAt = 0 THEN FALSE
    ELSE clock < sessionData.expiresAt

\* mutant: compare-and-set, an entry still valid is kept
setSessionDataIfAbsent(storage, abtestId, creativeData, sessionDuration, clock) ==
    IF storage.session[abtestId].kind = "entry"
       /\ clock < storage.session[abtestId].expiresAt
    THEN storage
    ELSE [storage EXCEPT !.session[abtestId] =
            SessionEntry(creativeData, clock + sessionDuration * 60 * 1000)]

\* mutant: the duration is taken as seconds
setSessionDataSeconds(storage, abtestId, creativeData, sessionDuration, clock) ==
    [storage EXCEPT !.session[abtestId] =
        SessionEntry(creativeData, clock + sessionDuration * 1000)]

\* setSessionData(abtestId, creativeData, sessionDuration) at Date.now() = clock
setSessionData(storage, abtestId, creativeData, sessionDuration, clock) ==
    [storage EXCEPT !.session[abtestId] =
        SessionEntry(creativeData, clock + sessionDuration * 60 * 1000)]

\* result.sessionDuration || 720
sessionDurationOf(result) ==
    IF result.sessionDuration = 0 THEN 720 ELSE result.sessionDuration

(***************************************************************************)
(* Spec: one visitor's browser loads pages of the site one after another   *)
(* while the clock advances                                                *)
(***************************************************************************)
MaxTicks == 2

MaxVisits == 2

\* one step of the clock: half a minute
TickMs == 30 * 1000

Tabs == {"tab1"}

AbtestIds == {1, 2}

SiteOrigin == HttpsPrefix \o H_example_com

ForeignOrigin == HttpsPrefix \o JoinDots(<<L_evil, L_com>>)

\* the Project collection: p1 with its key and allow-list
MainProjects == PROJECT_ID :> ProjectWith(<<SiteOrigin>>)

\* process.env of the deployment
MainEnv == EnvOf(<<>>, "production")

NonOriginals ==
    <<Creative(1, FALSE, <<"c">>, <<>>), Creative(3, FALSE, <<" ">>, <<"j">>)>>

\* the ABTest collections the server may hold
MainStores ==
    { WithIds(<<[BaseTest EXCEPT !.targetUrl = <<"a">>]>>),
      WithIds(<<[BaseTest EXCEPT !.targetUrl = <<"a">>],
                [BaseTest EXCEPT !.sessionDuration = 0, !.creatives = NonOriginals]>>) }

PageA == <<"/", "a">>

PageB == <<"/", "b">>

PageOf(url, ghVoid, ghId, ghCreative) ==
    [url |-> url, ghVoid |-> ghVoid, ghId |-> ghId, ghCreative |-> ghCreative]

\* the pages the visitor may open: path with gh_void, gh_id and gh_creative
Pages ==
    { PageOf(PageA, NoParam, 0, <<NoParam>>),
      PageOf(PageB, NoParam, 0, <<NoParam>>),
      PageOf(PageA, "0", 0, <<NoParam>>),
      PageOf(PageA, "1", 0, <<NoParam>>),
      PageOf(PageA, NoParam, 1, <<"1">>),
      PageOf(PageA, "1", 1, <<"0">>),
      PageOf(PageA, "2", 1, <<"1">>) }

IdleView ==
    [ pc |-> "idle", url |-> <<>>, ghVoid |-> NoParam, ghId |-> 0,
      ghCreative |-> <<NoParam>>, visitCount |-> 0, result |-> NotMatched,
      seen |-> NoEntry, creative |-> NoCreative,
      isNewImpression |-> FALSE, sent |-> 0, styles |-> 0, scripts |-> 0,
      events |-> 0, status |-> 0 ]

NoWindowLogs == [assigned |-> 0, forced |-> 0]

\* the session cache of a first-time visitor: nothing under the key of
\* test 1, text that is not JSON under the key of test 2
FirstSession ==
    [id \in AbtestIds |-> IF id = 1 THEN NoEntry ELSE UnparsableEntry]

Init ==
    /\ now = TickMs
    /\ stored \in MainStores
    /\ localStorage = [ tracker_visit_count |-> 0, session |-> FirstSession ]
    /\ view = [t \in Tabs |-> IdleView]
    /\ windowLogs = [id \in AbtestIds |-> NoWindowLogs]
    /\ abtestLogs = [id \in AbtestIds |-> 0]
    /\ input = Idle
    /\ output = Idle

\* no page load of the browser is in progress
NoneLoading == \A t \in Tabs : view[t].pc \in {"idle", "done"}

\* the SDK script starts on a page: URL parameters, the early return of
\* gh_void=1 without a forced creative, visit count, dispatch and the
\* page_view tracker event
RunScript(t, page) ==
          LET visitCount == localStorage.tracker_visit_count + 1
              force      == isForceCreativeMode(page.ghId, page.ghCreative)
              skip       == shouldSkipTracking(page.ghVoid)
              shown      == [IdleView EXCEPT
                                !.url = page.url, !.ghVoid = page.ghVoid,
                                !.ghId = page.ghId, !.ghCreative = page.ghCreative]
          IN  IF skip /\ ~force /\ shouldSkipABTest(page.ghVoid)
              THEN /\ localStorage' = localStorage
                   /\ view' = [view EXCEPT ![t] = [shown EXCEPT !.pc = "done"]]
              ELSE /\ localStorage' =
                         [localStorage EXCEPT !.tracker_visit_count = visitCount]
                   /\ view' = [view EXCEPT ![t] =
                         [shown EXCEPT
                             !.visitCount = visitCount,
                             !.events = IF skip THEN 0 ELSE 1,
                             !.pc = IF force THEN "force"
                                    ELSE IF ~shouldSkipABTest(page.ghVoid) THEN "execute"
                                    ELSE "done"]]

\* the visitor opens a page once the previous page view is over
LoadPage(t) ==
    /\ NoneLoading
    /\ localStorage.tracker_visit_count < MaxVisits
    /\ \E page \in Pages : RunScript(t, page)
    /\ UNCHANGED <<now, stored, windowLogs, abtestLogs>>
    /\ UNCHANGED pureVars

\* the body executeABTest builds before signing
ExecuteBody(v) ==
    [ projectId |-> PROJECT_ID, url |-> v.url, userAgent |-> "ua-desktop",
      language |-> S_en, visitCount |-> v.visitCount, referrer |-> <<>>,
      ts |-> TsMissing, sig |-> SigMissing ]

\* how far a wrong visitor clock runs ahead of the server's
ClockSkew == 400 * 1000

\* what may happen to one execute request: answered by the handler, lost
\* on the way, answered while the handler throws, or signed by a visitor
\* whose clock is wrong
Fates == {"answered", "lost", "failed", "skewed"}

\* response.ok
responseOk(status) == status >= 200 /\ status <= 299

\* mutant: the response is used whatever its status
executeProceedsOnMatch(status, result) == result.matched /\ result.abtestId # 0

\* executeABTest goes on to the session cache: the fetch resolved (status 0
\* stands for a rejected fetch), `response.ok`, and
\* `result.matched && result.abtestId`
executeProceeds(status, result) ==
    /\ status # 0
    /\ responseOk(status)
    /\ result.matched /\ result.abtestId # 0

\* executeABTest up to `if (result.matched && result.abtestId)`: sign,
\* POST /api/abtests/execute, read the response.  The fetch rejects when
\* the request is lost or the browser withholds the response; the handler
\* answers 500 when it throws (`failed`)
ExecuteFetch(t) ==
    /\ view[t].pc = "execute"
    /\ \E fate \in Fates, k \in Draws :
          LET skew     == IF fate = "skewed" THEN ClockSkew ELSE 0
              body     == signBody(ExecuteBody(view[t]), now + skew, PROJECT_ID, API_KEY)
              response == postExecute(SiteOrigin, body, now, k, stored,
                                      MainProjects, MainEnv)
              status   == IF fate = "lost" \/ ~response.allowOrigin THEN 0
                          ELSE IF fate = "failed" THEN 500
                          ELSE response.status
              result   == IF fate = "failed" THEN NotMatched
                          ELSE response.result
          IN  view' = [view EXCEPT ![t] =
                 IF executeProceeds(status, result)
                 THEN [@ EXCEPT !.pc = "read", !.status = status, !.result = result]
                 ELSE [@ EXCEPT !.pc = "done", !.status = status]]
    /\ UNCHANGED <<now, stored, localStorage, windowLogs, abtestLogs>>
    /\ UNCHANGED pureVars

\* getSessionData and isSessionValid: a valid entry gives the creative
ReadSession(t) ==
    /\ view[t].pc = "read"
    /\ LET sessionData == getSessionData(localStorage, view[t].result.abtestId)
       IN  view' = [view EXCEPT ![t] =
              IF sessionData # NoEntry /\ isSessionValid(sessionData, now)
              THEN [@ EXCEPT !.pc = "apply", !.creative = sessionData.creative,
                             !.seen = localStorage.session[view[t].result.abtestId]]
              ELSE [@ EXCEPT !.pc = "write", !.creative = view[t].result.creative,
                             !.seen = localStorage.session[view[t].result.abtestId]]]
    /\ UNCHANGED <<now, stored, localStorage, windowLogs, abtestLogs>>
    /\ UNCHANGED pureVars

\* the session window of abtestId is open: its entry has not expired
InsideWindow(abtestId) ==
    /\ abtestId \in AbtestIds
    /\ localStorage.session[abtestId].kind = "entry"
    /\ now < localStorage.session[abtestId].expiresAt

\* setSessionData for a fresh assignment; a new session window opens unless
\* one is still open
WriteSession(t) ==
    /\ view[t].pc = "write"
    /\ localStorage' = setSessionData(localStorage, view[t].result.abtestId,
                                      view[t].creative,
                                      sessionDurationOf(view[t].result), now)
    /\ view' = [view EXCEPT ![t].pc = "log", ![t].isNewImpression = TRUE]
    /\ windowLogs' = IF InsideWindow(view[t].result.abtestId) THEN windowLogs
                      ELSE [windowLogs EXCEPT ![view[t].result.abtestId] = NoWindowLogs]
    /\ UNCHANGED <<now, stored, abtestLogs>>
    /\ UNCHANGED pureVars

\* the body logABTestImpression builds before signing
ImpressionBody(v) ==
    [ projectId |-> PROJECT_ID, apiKey |-> API_KEY, abtestId |-> v.result.abtestId,
      userId |-> "user_1", creativeIndex |-> v.creative.index,
      isOriginal |-> v.creative.isOriginal, url |-> v.url,
      ts |-> TsMissing, sig |-> SigMissing ]

\* logABTestImpression: nothing under gh_void, otherwise sign and POST
\* /api/abtests/log-impression
LogImpression(t) ==
    /\ view[t].pc = "log"
    /\ IF shouldSkipTracking(view[t].ghVoid)
       THEN /\ view' = [view EXCEPT ![t].pc = "apply"]
            /\ UNCHANGED <<windowLogs, abtestLogs>>
       ELSE \E limited \in BOOLEAN :
              LET body     == signBody(ImpressionBody(view[t]), now, PROJECT_ID, API_KEY)
                  response == postLogImpression(SiteOrigin, body, now, limited,
                                                MainProjects, MainEnv)
                  id       == view[t].result.abtestId
              IN  /\ view' = [view EXCEPT ![t].pc = "apply", ![t].sent = @ + 1]
                  /\ windowLogs' =
                        IF ~InsideWindow(id) THEN windowLogs
                        ELSE IF view[t].isNewImpression
                        THEN [windowLogs EXCEPT ![id].assigned = @ + 1]
                        ELSE [windowLogs EXCEPT ![id].forced = @ + 1]
                  /\ abtestLogs' = IF response.saved
                                   THEN saveABTestLog(abtestLogs, body)
                                   ELSE abtestLogs
    /\ UNCHANGED <<now, stored, localStorage>>
    /\ UNCHANGED pureVars

\* mutant: the original's css and javascript are applied like any other
applyEffectsOfAny(creative) ==
    [ styles  |-> IF IsBlank(creative.css) THEN 0 ELSE 1,
      scripts |-> IF IsBlank(creative.javascript) THEN 0 ELSE 1 ]

\* what applying `creative` does to the page: nothing for the original,
\* else one style element appended for non-blank css and one run of
\* non-blank javascript
applyEffects(creative) ==
    IF creative.isOriginal THEN [styles |-> 0, scripts |-> 0]
    ELSE [ styles  |-> IF IsBlank(creative.css) THEN 0 ELSE 1,
           scripts |-> IF IsBlank(creative.javascript) THEN 0 ELSE 1 ]

\* the creative is applied
ApplyCreative(t) ==
    /\ view[t].pc = "apply"
    /\ view' = [view EXCEPT ![t].pc = "done",
                            ![t].styles = @ + applyEffects(view[t].creative).styles,
                            ![t].scripts = @ + applyEffects(view[t].creative).scripts]
    /\ UNCHANGED <<now, stored, localStorage, windowLogs, abtestLogs>>
    /\ UNCHANGED pureVars

\* executeForceCreative up to the impression: GET the named creative
ForceFetch(t) ==
    /\ view[t].pc = "force"
    /\ \E delivered \in BOOLEAN :
          LET response == getCreative(SiteOrigin, view[t].ghId, view[t].ghCreative,
                                      stored, MainProjects, MainEnv)
          IN  view' = [view EXCEPT ![t] =
                 IF delivered /\ response.status = 200
                 THEN [@ EXCEPT !.result = response, !.creative = response.creative,
                                !.pc = IF shouldSkipTracking(view[t].ghVoid)
                                       THEN "apply" ELSE "log"]
                 ELSE [@ EXCEPT !.pc = "done"]]
    /\ UNCHANGED <<now, stored, localStorage, windowLogs, abtestLogs>>
    /\ UNCHANGED pureVars

\* time passes
Tick ==
    /\ now < TickMs * (MaxTicks + 1)
    /\ now' = now + TickMs
    /\ UNCHANGED <<stored, localStorage, view, windowLogs, abtestLogs>>
    /\ UNCHANGED pureVars

Next ==
    \/ \E t \in Tabs : LoadPage(t)
    \/ \E t \in Tabs : ExecuteFetch(t)
    \/ \E t \in Tabs : ReadSession(t)
    \/ \E t \in Tabs : WriteSession(t)
    \/ \E t \in Tabs : LogImpression(t)
    \/ \E t \in Tabs : ApplyCreative(t)
    \/ \E t \in Tabs : ForceFetch(t)
    \/ Tick

Spec == Init /\ [][Next]_vars

\* the page view of tab t runs executeABTest (not the forced creative)
Assigning(t) == ~isForceCreativeMode(view[t].ghId, view[t].ghCreative)

\* the session cache entry of the test matched for tab t, as stored
CachedEntry(t) == localStorage.session[view[t].result.abtestId]

\* tab t reads the session cache in this step
ReadStep(t) == view[t].pc = "read" /\ view'[t].pc # "read"

\* tab t writes the session cache in this step
WriteStep(t) == view[t].pc = "write" /\ view'[t].pc # "write"

\* tab t applies its creative in this step
ApplyStep(t) == view[t].pc = "apply" /\ view'[t].pc = "done"

\* style elements the creative adds to the document head
StyleElements(creative) ==
    IF ~creative.isOriginal /\ ~IsBlank(creative.css) THEN 1 ELSE 0

\* a read that finds an entry with now < expiresAt takes the cached creative
\* and sends no impression; the creative applied on such a page view is the
\* cached one
StickyStep(t) ==
    /\ ( ReadStep(t) /\ CachedEntry(t).kind = "entry" /\ now < CachedEntry(t).expiresAt )
          => /\ view'[t].creative = CachedEntry(t).creative
             /\ view'[t].pc = "apply"
             /\ ~view'[t].isNewImpression
    /\ ( ApplyStep(t) /\ Assigning(t) /\ ~view[t].isNewImpression )
          => /\ view[t].creative = view[t].seen.creative
             /\ view'[t].styles = view[t].styles + StyleElements(view[t].seen.creative)
             /\ view'[t].sent = 0

\* C4: when the server answers matched:true for an abtestId whose cache
\* entry has now < expiresAt, the client applies the creative stored in the
\* entry, not the creative of the new response.
C4_StickyAssignment == [][\A t \in Tabs : StickyStep(t)]_vars

\* C4 witness: a page view inside the window applied the cached creative
\* while the response carried another one
C4_Witness ==
    \E t \in Tabs :
        /\ view[t].pc = "done"
        /\ Assigning(t)
        /\ view[t].result.matched
        /\ view[t].seen.kind = "entry"
        /\ ~view[t].isNewImpression
        /\ view[t].creative = view[t].seen.creative
        /\ view[t].result.creative.index # view[t].creative.index
        /\ view[t].styles = 1

\* C5: at most one impression is sent per abtestId between the moment a
\* cache entry is written and its expiresAt.
C5_AtMostOneImpressionPerWindow ==
    \A id \in AbtestIds : windowLogs[id].assigned + windowLogs[id].forced <= 1

\* C5, amended: at most one impression of an assignment (executeABTest) is
\* sent per abtestId between the moment a cache entry is written and its
\* expiresAt; forced creatives (gh_id, gh_creative) log on every page view.
C5_AtMostOneAssignedImpressionPerWindow ==
    \A id \in AbtestIds : windowLogs[id].assigned <= 1

\* C5 witness: the second page view fell inside the window opened by the
\* first one and sent no impression
C5_Witness ==
    \E t \in Tabs :
        /\ view[t].pc = "done"
        /\ view[t].visitCount = 2
        /\ Assigning(t)
        /\ view[t].ghVoid = NoParam
        /\ view[t].result.matched
        /\ view[t].seen.kind = "entry"
        /\ ~view[t].isNewImpression
        /\ view[t].sent = 0
        /\ windowLogs[view[t].result.abtestId].assigned = 1

\* a read that finds no valid entry (absent, unparsable, now >= expiresAt)
\* takes the creative of the response, and the write stores it with
\* expiresAt = now + sessionDuration * 60000
FreshStep(t) ==
    /\ ( ReadStep(t)
         /\ (CachedEntry(t).kind # "entry" \/ now >= CachedEntry(t).expiresAt) )
          => /\ view'[t].creative = view[t].result.creative
             /\ view'[t].pc = "write"
    /\ WriteStep(t)
          => /\ localStorage'.session[view[t].result.abtestId] =
                   [ kind      |-> "entry",
                     creative  |-> view[t].result.creative,
                     expiresAt |-> now + view[t].result.sessionDuration * 60000 ]
             /\ view'[t].isNewImpression

\* the page view of tab t is over and was a fresh assignment
FreshDone(t) == view[t].pc = "done" /\ Assigning(t) /\ view[t].isNewImpression

\* C6: a matched response with no valid cache entry overwrites the entry
\* with the response's creative and expiresAt = now + sessionDuration * 60000,
\* and exactly one impression is sent for the fresh assignment.
C6_FreshAssignmentLogsOnce ==
    /\ [][\A t \in Tabs : FreshStep(t)]_vars
    /\ [](\A t \in Tabs : FreshDone(t) => view[t].sent = 1)

\* C6, amended: ... and exactly one impression is sent for the fresh
\* assignment unless the page carries gh_void, in which case none is sent.
C6_FreshAssignmentLogsOnceUnlessVoid ==
    /\ [][\A t \in Tabs : FreshStep(t)]_vars
    /\ [](\A t \in Tabs :
            FreshDone(t) =>
                view[t].sent = IF view[t].ghVoid = NoParam THEN 1 ELSE 0)

\* C6 witness: an entry read at the instant it expired was overwritten and
\* one impression was sent
C6_Witness ==
    \E t \in Tabs :
        /\ FreshDone(t)
        /\ view[t].ghVoid = NoParam
        /\ view[t].seen.kind = "entry"
        /\ CachedEntry(t).expiresAt = view[t].seen.expiresAt + 60000
        /\ CachedEntry(t).creative = view[t].result.creative
        /\ view[t].sent = 1

\* the page of tab t is as the SDK found it: nothing injected, nothing run
Untouched(t) == view[t].styles = 0 /\ view[t].scripts = 0

\* applying the original leaves the page untouched; applying another
\* creative with non-blank css appends one style element
ApplyOnceStep(t) ==
    ApplyStep(t) =>
        /\ Untouched(t)
        /\ view[t].creative.isOriginal => view'[t].styles = 0 /\ view'[t].scripts = 0
        /\ (~view[t].creative.isOriginal /\ ~IsBlank(view[t].creative.css))
              => view'[t].styles = 1

\* C17: when the creative the client applies has isOriginal true, the
\* client injects no CSS and executes no JavaScript on that page view;
\* otherwise, when its css is non-blank, the client appends exactly one
\* style element per page view.
C17_OriginalUntouchedElseOneStyle ==
    /\ [][\A t \in Tabs : ApplyOnceStep(t)]_vars
    /\ [](\A t \in Tabs : view[t].pc # "done" => Untouched(t))

\* C17 witness: a page view applied an original that carries css and
\* javascript, and the page is untouched
C17_Witness ==
    \E t \in Tabs :
        /\ view[t].pc = "done"
        /\ view[t].result.matched
        /\ view[t].creative.isOriginal
        /\ ~IsBlank(view[t].creative.css)
        /\ ~IsBlank(view[t].creative.javascript)
        /\ Untouched(t)

\* the page of tab t carries gh_id and gh_creative
Forced(t) == isForceCreativeMode(view[t].ghId, view[t].ghCreative)

\* the page view of tab t is over
Done(t) == view[t].pc = "done"

\* gh_void=0 runs the test without recording; gh_void=1 alone runs and
\* records nothing
VoidModes(t) ==
    /\ (view[t].ghVoid = "0" /\ ~Forced(t))
          => view[t].events = 0 /\ view[t].sent = 0
    /\ (view[t].ghVoid = "1" /\ ~Forced(t))
          => /\ view[t].events = 0 /\ view[t].sent = 0
             /\ ~view[t].result.matched /\ Untouched(t)
             /\ view[t].seen = NoEntry /\ ~view[t].isNewImpression

\* C18: the URL-parameter modes follow the README table: gh_void=0 runs
\* the A/B test and records neither tracking event nor impression;
\* gh_void=1 alone runs no A/B test and records nothing; with gh_id and
\* gh_creative the named creative is applied, and the tracking event and
\* the impression are recorded iff gh_void is absent.
C18_UrlModesFollowReadme ==
    \A t \in Tabs :
        Done(t) =>
            /\ VoidModes(t)
            /\ Forced(t) => (view[t].events = 1 <=> view[t].ghVoid = NoParam)
            /\ (Forced(t) /\ view[t].result.matched)
                  => /\ view[t].creative = view[t].result.creative
                     /\ view[t].sent = 1 <=> view[t].ghVoid = NoParam

(***************************************************************************)
(* SpecTabs: the visitor has two tabs of the same browser; their page      *)
(* loads overlap and share localStorage                                    *)
(***************************************************************************)
AllTabs == {"tab1", "tab2"}

InitTabs ==
    /\ now = TickMs
    /\ stored \in MainStores
    /\ localStorage = [ tracker_visit_count |-> 0, session |-> FirstSession ]
    /\ view = [t \in AllTabs |-> IdleView]
    /\ windowLogs = [id \in AbtestIds |-> NoWindowLogs]
    /\ abtestLogs = [id \in AbtestIds |-> 0]
    /\ input = Idle
    /\ output = Idle

\* a tab opens a page of the site, once, while the other tab may still be
\* loading
OpenTab(t) ==
    /\ view[t].pc = "idle"
    /\ localStorage.tracker_visit_count < MaxVisits
    /\ \E page \in {PageOf(PageA, NoParam, 0, <<NoParam>>),
                     PageOf(PageB, NoParam, 0, <<NoParam>>)} : RunScript(t, page)
    /\ UNCHANGED <<now, stored, windowLogs, abtestLogs>>
    /\ UNCHANGED pureVars

NextTabs ==
    \/ \E t \in AllTabs : OpenTab(t)
    \/ \E t \in AllTabs : ExecuteFetch(t)
    \/ \E t \in AllTabs : ReadSession(t)
    \/ \E t \in AllTabs : WriteSession(t)
    \/ \E t \in AllTabs : LogImpression(t)
    \/ \E t \in AllTabs : ApplyCreative(t)

SpecTabs == InitTabs /\ [][NextTabs]_vars

\* a write made after the read is not conditional on what the cache holds
\* by then: an entry another tab stored in between is overwritten and the
\* page view counts as a new impression
BlindWriteStep(t) ==
    ( WriteStep(t) /\ view[t].seen.kind # "entry" /\ CachedEntry(t).kind = "entry" )
        => /\ localStorage'.session[view[t].result.abtestId].creative = view[t].creative
           /\ view'[t].isNewImpression

\* both tabs finished a fresh assignment of test `id`, each having read the
\* cache before any entry was there
BothFresh(id) ==
    \A t \in AllTabs :
        /\ FreshDone(t)
        /\ view[t].result.abtestId = id
        /\ view[t].seen.kind # "entry"

\* C19: two page loads of one browser can both read the session cache of
\* an abtestId before either writes it; both then take the fresh
\* assignment, the later write overwrites the earlier entry unchecked, and
\* both send an impression: two impressions for one test and window.
C19_TwoTabsBothLog ==
    /\ [][\A t \in AllTabs : BlindWriteStep(t)]_vars
    /\ [](\A id \in AbtestIds :
            BothFresh(id) =>
                /\ \A t \in AllTabs : view[t].sent = 1
                /\ windowLogs[id].assigned = 2)

\* C19 witness: both tabs read an empty cache, were assigned different
\* creatives, and two impressions of the test lie in one session window
C19_Witness ==
    \E id \in AbtestIds :
        /\ BothFresh(id)
        /\ view["tab1"].creative # view["tab2"].creative
        /\ windowLogs[id].assigned = 2
        /\ InsideWindow(id)

\* executeABTest of tab t is past its fetch
ExecuteOver(t) ==
    /\ Assigning(t)
    /\ ~shouldSkipABTest(view[t].ghVoid)
    /\ view[t].pc \notin {"idle", "execute"}

\* the execute request of tab t failed (rejected fetch or non-2xx status)
\* or answered matched:false
FellThrough(t) ==
    /\ ExecuteOver(t)
    /\ view[t].status = 0 \/ ~responseOk(view[t].status) \/ ~view[t].result.matched

\* C16: if the execute request fails (network error, or a non-2xx response
\* such as 401 or 500) or returns matched:false, the SDK writes no session
\* cache entry, sends no impression log, injects no CSS and runs no
\* JavaScript: the page view ends there.
C16_FailureFallsThrough ==
    /\ [](\A t \in Tabs :
            FellThrough(t) =>
                /\ view[t].pc = "done"
                /\ ~view[t].isNewImpression
                /\ view[t].sent = 0
                /\ view[t].styles = 0
                /\ view[t].scripts = 0)
    /\ [][\A t \in Tabs :
            (view[t].pc = "execute" /\ view'[t].pc = "done") =>
                /\ localStorage' = localStorage
                /\ abtestLogs' = abtestLogs]_vars

\* C16 witness: the second page view got 401 after the first one had been
\* assigned a creative; the cache entry of the first is still there
C16_Witness ==
    \E t \in Tabs :
        /\ FellThrough(t)
        /\ view[t].status = 401
        /\ view[t].visitCount = 2
        /\ \E id \in AbtestIds : localStorage.session[id].kind = "entry"

(***************************************************************************)
(* SpecRoute: the route chain of POST /api/abtests/execute applied to      *)
(* requests of any client                                                  *)
(***************************************************************************)
RouteNow == 500 * 1000

RouteOrigins ==
    { NoOrigin, OriginNull, SiteOrigin, ForeignOrigin,
      HttpsPrefix \o JoinDots(<<L_sub, L_example, L_com>>) }

RouteAllowLists == { <<SiteOrigin>>, <<>>, <<Wildcard(HttpsPrefix, H_example_com)>> }

\* the Project collection of SpecRoute
RouteProjects == PROJECT_ID :> ProjectWith(input.allowedOrigins)

InitRoute ==
    /\ MainAtRest
    /\ input \in [ origin         : RouteOrigins,
                   allowedOrigins : RouteAllowLists,
                   projectId      : {PROJECT_ID, "p9"},
                   key            : {API_KEY, "k2"},
                   url            : {PageA, PageB},
                   age            : {0, 400 * 1000},
                   abtests        : MainStores,
                   k              : Draws ]
    /\ output = Pending

\* the client signs its body; the server runs the route chain on it
CallPostExecute ==
    /\ output = Pending
    /\ LET body == signBody([ExecuteBody(IdleView) EXCEPT
                                !.projectId = input.projectId, !.url = input.url],
                            RouteNow - input.age, input.projectId, input.key)
       IN  output' = [response |-> postExecute(input.origin, body, RouteNow, input.k,
                                               input.abtests, RouteProjects, MainEnv)]
    /\ UNCHANGED mainVars
    /\ UNCHANGED input

NextRoute == CallPostExecute

SpecRoute == InitRoute /\ [][NextRoute]_vars

\* C1: the orchestrator runs and answers only for a request that passed
\* signature verification and whose Origin is allowed for the resolved
\* project; a request with a disallowed Origin never reaches it.
C1_OrchestratorOnlyForAllowedOrigin ==
    (output # Pending /\ output.response.ran) =>
        /\ output.response.verified
        /\ isAllowedTrackingOrigin(input.origin, findById(RouteProjects, input.projectId), MainEnv)

(***************************************************************************)
(* SpecLog: one signed POST to /api/abtests/log-impression or to /track    *)
(***************************************************************************)
LogRoutes == {"log-impression", "track"}

\* the Project collection of SpecLog
LogProjects ==
    PROJECT_ID :> [ found |-> TRUE, id |-> PROJECT_ID, apiKey |-> API_KEY,
                    allowedOrigins |-> <<SiteOrigin>>, url |-> PageA \o <<"/">> ]

InitLog ==
    /\ MainAtRest
    /\ input \in [ route     : LogRoutes,
                   origin    : {SiteOrigin, ForeignOrigin},
                   projectId : {PROJECT_ID, "p9", NoId},
                   key       : {API_KEY, "k2"},
                   apiKey    : {API_KEY, "k2", ""},
                   missing   : {"none", "userId", "subject", "creativeIndex"},
                   url       : {PageA, PageB},
                   age       : {0, 400 * 1000},
                   transport : Transports,
                   limited   : BOOLEAN ]
    /\ output = Pending

\* the body the client posts: an impression, or a tracking event
LogBody ==
    LET userId == IF input.missing = "userId" THEN "" ELSE "user_1"
    IN  IF input.route = "track"
        THEN [ projectId |-> input.projectId, apiKey |-> input.apiKey,
               userId |-> userId, url |-> input.url,
               event |-> IF input.missing = "subject" THEN "" ELSE "page_view",
               ts |-> TsMissing, sig |-> SigMissing ]
        ELSE [ projectId |-> input.projectId, apiKey |-> input.apiKey,
               abtestId |-> IF input.missing = "subject" THEN 0 ELSE 1,
               userId |-> userId,
               creativeIndex |-> IF input.missing = "creativeIndex"
                                 THEN NoCreativeIndex ELSE 1,
               isOriginal |-> FALSE, url |-> input.url,
               ts |-> TsMissing, sig |-> SigMissing ]

\* the client signs its body; the server runs the route chain on it and
\* stores a log when the handler saves
CallPostLog ==
    /\ output = Pending
    /\ LET body == signBody(LogBody, RouteNow - input.age, input.projectId, input.key)
           response ==
               IF input.route = "track"
               THEN postTrack(input.origin, body, input.transport, RouteNow,
                              input.limited, LogProjects, MainEnv)
               ELSE postLogImpression(input.origin, body, RouteNow, input.limited,
                                      LogProjects, MainEnv)
       IN  output' =
             [ response   |-> response,
               abtestLogs |-> IF input.route # "track" /\ response.saved
                              THEN saveABTestLog([id \in AbtestIds |-> 0], body)
                              ELSE [id \in AbtestIds |-> 0],
               logs       |-> IF input.route = "track" /\ response.saved
                              THEN saveLog(0) ELSE 0 ]
    /\ UNCHANGED mainVars
    /\ UNCHANGED input

NextLog == CallPostLog

SpecLog == InitLog /\ [][NextLog]_vars

\* the request was signed for a stored project with that project's key, at
\* a time inside the signing window, and arrived readable
LogSignedByProject ==
    /\ input.projectId \in DOMAIN LogProjects
    /\ input.key = LogProjects[input.projectId].apiKey
    /\ input.age <= SIGNING_WINDOW_MS
    /\ input.transport # "garbage" \/ input.route # "track"

\* the body's (projectId, apiKey) pair is a stored project's
LogCredentialsMatch ==
    /\ input.projectId \in DOMAIN LogProjects
    /\ input.apiKey = LogProjects[input.projectId].apiKey

NothingStored ==
    /\ output.logs = 0
    /\ \A id \in AbtestIds : output.abtestLogs[id] = 0

PositionText(i) == <<HexDigits[i + 1]>>

CreativeIndexTexts ==
    { PositionText(0), PositionText(1), PositionText(2), <<"-", "1">>, <<"x">>,
      <<"1", "x">>, <<"1", ".", "5">>, <<" ", "0">> }

InitCreative ==
    /\ MainAtRest
    /\ input \in [ origin        : {NoOrigin, SiteOrigin, ForeignOrigin},
                   abtestId      : AbtestIds \cup {9},
                   creativeIndex : CreativeIndexTexts,
                   abtests       : MainStores ]
    /\ output = Pending

CallGetCreative ==
    /\ output = Pending
    /\ output' = getCreative(input.origin, input.abtestId, input.creativeIndex,
                             input.abtests, MainProjects, MainEnv)
    /\ UNCHANGED mainVars
    /\ UNCHANGED input

NextCreative == CallGetCreative

SpecCreative == InitCreative /\ [][NextCreative]_vars

\* the stored test the request names, 0 when there is none
RequestedTest == findABTestById(input.abtests, input.abtestId)

\* creativeIndex is the text of an integer in 0..length-1
IdentifiesPosition ==
    /\ RequestedTest # 0
    /\ \E i \in 0..(Len(input.abtests[RequestedTest].creatives) - 1) :
            input.creativeIndex = PositionText(i)

\* the origin check of the endpoint lets the request through
CreativeOriginAllowed ==
    isAllowedTrackingOrigin(
        input.origin,
        IF RequestedTest = 0 THEN NoProject
        ELSE findById(MainProjects, input.abtests[RequestedTest].projectId),
        MainEnv)

\* C15: from an allowed origin, the creative endpoint answers 404 when
\* abtestId is not a stored test or creativeIndex is anything other than
\* an integer in 0..length-1, and otherwise returns the creative at exactly
\* that position with index = creativeIndex.
C15_InvalidIndexIs404 ==
    (output # Pending /\ CreativeOriginAllowed) =>
        IF IdentifiesPosition
        THEN /\ output.status = 200
             /\ PositionText(output.creative.index) = input.creativeIndex
        ELSE output.status = 404


(***************************************************************************)
(* SpecUnsigned: a signed body and a copy of it whose unsigned fields are  *)
(* altered in transit, both verified by the server at the same clock       *)
(***************************************************************************)
\* the body fields the signature payload does not cover, each with the two
\* values it takes here
UnsignedFields ==
    [ visitCount    |-> {1, 7},
      userAgent     |-> {"ua1", "ua2"},
      language      |-> {"en", "ja"},
      referrer      |-> {<<>>, <<"r">>},
      userId        |-> {"user_1", ""},
      abtestId      |-> {1, 2},
      creativeIndex |-> {0, 1},
      event         |-> {"page_view", "purchase"} ]

\* the body the SDK is about to sign
UnsignedBody(projectId, url) ==
    [ projectId |-> projectId, url |-> url, ts |-> TsMissing, sig |-> SigMissing,
      visitCount |-> 1, userAgent |-> "ua1", language |-> "en", referrer |-> <<>>,
      userId |-> "user_1", abtestId |-> 1, creativeIndex |-> 0,
      event |-> "page_view" ]

\* the body as the SDK signed it, its signature spoilt when `forged`
SentBody(projectId, key, url, age, forged) ==
    LET signed == signBody(UnsignedBody(projectId, url), RouteNow - age, projectId, key)
    IN  IF forged THEN [signed EXCEPT !.sig = SigStr(FlipFirst(signed.sig.s))]
        ELSE signed

InitUnsigned ==
    /\ MainAtRest
    /\ \E projectId \in SigIds \cup {NoId}, key \in SigKeys, url \in SigUrls,
          age \in {0, 400 * 1000}, forged \in BOOLEAN :
          input = [ first  |-> SentBody(projectId, key, url, age, forged),
                    second |-> SentBody(projectId, key, url, age, forged) ]
    /\ output = Pending

\* one unsigned field of the second request is replaced
AlterUnsigned ==
    /\ output = Pending
    /\ \E f \in DOMAIN UnsignedFields :
          \E v \in UnsignedFields[f] \ {input.second[f]} :
              input' = [input EXCEPT !.second[f] = v]
    /\ UNCHANGED mainVars
    /\ UNCHANGED output

\* the server runs projectLookupMiddleware and verifySignature on each of
\* the two requests
CallVerifyBoth ==
    /\ output = Pending
    /\ \E transport \in Transports :
          LET first  == projectLookupMiddleware(Wire(input.first, transport),
                                                SigProjectStore)
              second == projectLookupMiddleware(Wire(input.second, transport),
                                                SigProjectStore)
          IN  output' = [ first     |-> verifySignature(first, RouteNow, SigProjectStore),
                          second    |-> verifySignature(second, RouteNow, SigProjectStore),
                          transport |-> transport ]
    /\ UNCHANGED mainVars
    /\ UNCHANGED input

NextUnsigned == AlterUnsigned \/ CallVerifyBoth

SpecUnsigned == InitUnsigned /\ [][NextUnsigned]_vars

\* the two requests carry the same projectId, url, _ts and _sig
SignedFieldsAgree ==
    /\ input.first.projectId = input.second.projectId
    /\ input.first.url = input.second.url
    /\ input.first.ts = input.second.ts
    /\ input.first.sig = input.second.sig

\* C27: two requests that agree on projectId, url, _ts and _sig, verified
\* at the same clock against the same stored projects, receive the same
\* verdict whatever their other body fields are.
C27_VerdictIgnoresUnsignedFields ==
    (output # Pending /\ SignedFieldsAgree) => output.first = output.second

\* C27 witness: a request whose userId, abtestId, creativeIndex and event
\* were replaced after signing was accepted
C27_Witness ==
    /\ output # Pending
    /\ SignedFieldsAgree
    /\ input.second.userId # input.first.userId
    /\ input.second.abtestId # input.first.abtestId
    /\ input.second.creativeIndex # input.first.creativeIndex
    /\ input.second.event # input.first.event
    /\ output.first.ok
    /\ output.second.ok

(***************************************************************************)
(* SpecReplay: one signed log-impression body, submitted again and again   *)
(* while the server clock moves on                                         *)
(***************************************************************************)
MaxReplays == 3

\* the instants at which the server receives a submission; the body is
\* signed at RouteNow
ReplayInstants ==
    { RouteNow, RouteNow + 150 * 1000, RouteNow + SIGNING_WINDOW_MS,
      RouteNow + SIGNING_WINDOW_MS + 1 }

\* the impression the client signed once, at RouteNow
ReplayBody ==
    signBody([ projectId |-> input.projectId, apiKey |-> input.apiKey,
               abtestId |-> 1, userId |-> "user_1", creativeIndex |-> 1,
               isOriginal |-> FALSE, url |-> PageA,
               ts |-> TsMissing, sig |-> SigMissing ],
             RouteNow, input.projectId, input.key)

InitReplay ==
    /\ MainAtRest
    /\ input \in [ projectId : {PROJECT_ID, "p9"},
                   key       : {API_KEY, "k2"},
                   apiKey    : {API_KEY, "k2"},
                   now       : {RouteNow} ]
    /\ output = [ submitted  |-> 0,
                  verified   |-> FALSE,
                  status     |-> 0,
                  abtestLogs |-> [id \in AbtestIds |-> 0] ]

\* the server clock moves to a later instant
AdvanceClock ==
    /\ \E later \in ReplayInstants :
          /\ later > input.now
          /\ input' = [input EXCEPT !.now = later]
    /\ UNCHANGED mainVars
    /\ UNCHANGED output

\* the same body is posted once more to /api/abtests/log-impression
SubmitAgain ==
    /\ output.submitted < MaxReplays
    /\ \E limited \in BOOLEAN :
          LET req      == projectLookupMiddleware(Wire(ReplayBody, "parsed"), LogProjects)
              response == postLogImpression(SiteOrigin, ReplayBody, input.now, limited,
                                            LogProjects, MainEnv)
          IN  output' =
                [ submitted  |-> output.submitted + 1,
                  verified   |-> verifySignature(req, input.now, LogProjects).ok,
                  status     |-> response.status,
                  abtestLogs |-> IF response.saved
                                 THEN saveABTestLog(output.abtestLogs, ReplayBody)
                                 ELSE output.abtestLogs ]
    /\ UNCHANGED mainVars
    /\ UNCHANGED input

NextReplay == AdvanceClock \/ SubmitAgain

SpecReplay == InitReplay /\ [][NextReplay]_vars

\* the body was signed for a stored project with that project's key
ReplaySignedByProject ==
    /\ input.projectId \in DOMAIN LogProjects
    /\ input.key = LogProjects[input.projectId].apiKey

\* a step in which the body is submitted
ReplayStep == output'.submitted = output.submitted + 1

\* C28: every submission of the validly signed body made while
\* |now - _ts| <= SIGNING_WINDOW_MS passes verification, however many came
\* before it, and every submission answered 200 adds exactly one impression
\* record, the others adding none.
C28_ReplayAcceptedEveryTime ==
    [][ ReplayStep =>
          /\ (ReplaySignedByProject /\ InWindow(input.now, RouteNow))
                 => output'.verified
          /\ output'.status = 200 =>
                 output'.abtestLogs =
                     [output.abtestLogs EXCEPT ![1] = output.abtestLogs[1] + 1]
          /\ output'.status # 200 => output'.abtestLogs = output.abtestLogs ]_vars

\* C28 witness: the body was accepted at every submission, the last one at
\* the edge of the window, and there are as many records as submissions
C28_Witness ==
    /\ output.submitted >= 2
    /\ output.abtestLogs[1] = output.submitted
    /\ input.now = RouteNow + SIGNING_WINDOW_MS
    /\ output.verified
    /\ output.status = 200

=============================================================================
